---- MODULE Spec2Model ----
(***************************************************************************)
(* Model of the Bang & Olufsen Home Assistant integration:                 *)
(*   - the Beolink leader/listener command relay of the media player      *)
(*     entity (media_player.py), built on the host dispatcher;            *)
(*   - the config flow (config_flow.py);                                  *)
(*   - the play_media service of the media player entity;                 *)
(*   - the other services and notification handlers of the media player   *)
(*     entity, the event entities (event.py) and the options flow.        *)
(* Each part has its own specification over the shared variables.         *)
(***************************************************************************)
EXTENDS Integers, Sequences, FiniteSets, TLC

VARIABLES
    registered,         \* entities whose async_added_to_hass has run (dispatchers connected)
    remote_leader,      \* _remote_leader of each entity: a JID or None
    beolink_listeners,  \* _beolink_listeners of each entity: list of JIDs
    source_list,        \* _source_list of each entity
    source_list_friendly, \* _source_list_friendly of each entity
    tasks,              \* dispatcher jobs scheduled on the event loop, oldest first
    published,          \* every async_dispatcher_send made, in order
    executed,           \* per entity: the async_<command> methods invoked, in order
    requests,           \* per entity: the requests sent to the device through the client
    log,                \* messages logged with _LOGGER.error
    escaped,            \* exceptions that left a handler
    calls,              \* the service calls made so far
    updated,            \* history: _update_beolink ran after the first service call
    flows,              \* the config flows, by flow id
    entries,            \* the config entries, in order of creation
    max_volume,         \* _max_volume of each entity (entry.data)
    volume_step,        \* _volume_step of each entity (entry.data)
    current_volume,     \* _volume.level.level of each entity
    playback_metadata,  \* _playback_metadata of each entity
    source_change,      \* _source_change of each entity
    playback_progress,  \* _playback_progress.progress of each entity
    last_update,        \* _last_update of each entity
    state,              \* _state of each entity
    playback_state,     \* _playback_state.value of each entity
    group_members,      \* _attr_group_members of each entity
    now,                \* the clock utcnow() reads
    background,         \* the tasks made with hass.async_create_task
    connected,          \* event entities whose async_added_to_hass has run
    triggered,          \* per event entity: the events triggered, in order
    written,            \* per event entity: number of async_write_ha_state calls
    notifications,      \* the button and key notifications dispatched so far
    option_flows,       \* the options flows, by flow id
    option_entries      \* the results of async_create_entry of the options flows

relayVars == <<registered, remote_leader, beolink_listeners, source_list,
               source_list_friendly, tasks, published, executed, requests,
               log, escaped, calls, updated>>

flowVars == <<flows, entries>>

entityVars == <<max_volume, volume_step, current_volume, playback_metadata, source_change,
                playback_progress, last_update, state, playback_state,
                group_members, now, background>>

eventVars == <<connected, triggered, written, notifications>>

optionVars == <<option_flows, option_entries>>

vars == <<relayVars, flowVars, entityVars, eventVars, optionVars>>

\* The entity fields no service call assigns.
entityFrame == <<max_volume, volume_step, current_volume, playback_metadata, source_change,
                 state, playback_state, group_members, now>>

\* What lies outside the media player entities.
outsideEntity == <<flowVars, eventVars, optionVars>>

-----------------------------------------------------------------------------
(* Bounds of the model *)

\* Number of service calls made in one behaviour.
MaxCalls == 1
\* Longest list of Beolink listeners the device API reports.
MaxListeners == 2
\* Dispatcher jobs stop being run once this many signals have been sent.
MaxPublished == 4
\* Number of config flows started in one behaviour.
MaxFlows == 2
\* Number of times the user form of one flow is submitted.
MaxSubmits == 2
\* Latest reading of the clock.
MaxTime == 2
\* Number of beolink_expand and beolink_unexpand calls in one behaviour.
MaxTasks == 2
\* Number of button and key notifications in one behaviour.
MaxNotifications == 2
\* Longest list of JIDs given to beolink_expand and beolink_unexpand.
MaxJids == 2

-----------------------------------------------------------------------------
(* Python values.  A value carries its type, so that "0.5", 0.5 and None   *)
(* stay different and str(None) = "None" is not None.                      *)

None == "<None>"
PyNone == [t |-> "NoneType", v |-> ""]
PyStr(s) == [t |-> "str", v |-> s]
PyFloat(s) == [t |-> "float", v |-> s]     \* the float whose repr is s
PyBool(b) == [t |-> "bool", v |-> IF b THEN "True" ELSE "False"]

\* The strings float() parses, with int(float(s) * 100).
FloatLiterals == {"0.5", "0.0"}
Times100(s) == IF s = "0.5" THEN 50 ELSE 0

\* The value of a float, in ten-thousandths.
Positions == {"0.0", "0.0005", "1.5", "30.0"}
TenThousandths(s) ==
    CASE s = "0.0005" -> 5
      [] s = "0.5" -> 5000
      [] s = "1.5" -> 15000
      [] s = "30.0" -> 300000
      [] OTHER -> 0

\* int(x) and int(x * 1000) of a float that is not negative
IntOf(s) == TenThousandths(s) \div 10000
IntTimes1000(s) == TenThousandths(s) \div 10

Ok(val) == [ok |-> TRUE, val |-> val, exc |-> ""]
Raise(exc) == [ok |-> FALSE, val |-> PyNone, exc |-> exc]

\* float(p), bool(p), str(p)
PyFloatOf(p) ==
    CASE p.t = "float" -> Ok(p)
      [] p.t = "str" -> IF p.v \in FloatLiterals THEN Ok(PyFloat(p.v))
                        ELSE Raise("ValueError")
      [] p.t = "bool" -> Ok(PyFloat(IF p.v = "True" THEN "1.0" ELSE "0.0"))
      [] OTHER -> Raise("TypeError")

PyBoolOf(p) ==
    CASE p.t = "bool" -> Ok(p)
      [] p.t = "str" -> Ok(PyBool(p.v # ""))
      [] p.t = "float" -> Ok(PyBool(p.v # "0.0"))
      [] OTHER -> Ok(PyBool(FALSE))

PyStrOf(p) ==
    CASE p.t = "NoneType" -> Ok(PyStr("None"))
      [] OTHER -> Ok(PyStr(p.v))

\* parameter_type(parameter)
CallType(parameter_type, parameter) ==
    CASE parameter_type = "float" -> PyFloatOf(parameter)
      [] parameter_type = "bool" -> PyBoolOf(parameter)
      [] parameter_type = "str" -> PyStrOf(parameter)
      [] OTHER -> Raise("TypeError")       \* None(parameter)

-----------------------------------------------------------------------------
(* const.py *)

BEOLINK_LEADER_COMMAND == "BEOLINK_LEADER_COMMAND"
BEOLINK_LISTENER_COMMAND == "BEOLINK_LISTENER_COMMAND"
BEOLINK_VOLUME == "BEOLINK_VOLUME"

FLOAT_PARAMETERS == <<"set_volume_level", "media_seek", "float">>
BOOL_PARAMETERS == <<"mute_volume", "bool">>
STR_PARAMETERS == <<"select_source", "str">>
NONE_PARAMETERS == <<"volume_up", "volume_down", "media_play_pause", "media_pause",
                     "media_play", "media_stop", "media_next_track",
                     "media_previous_track", "toggle", None>>

ButLast(s) == SubSeq(s, 1, Len(s) - 1)
Last(s) == s[Len(s)]

ACCEPTED_COMMANDS ==
    ButLast(FLOAT_PARAMETERS) \o ButLast(BOOL_PARAMETERS)
        \o ButLast(STR_PARAMETERS) \o ButLast(NONE_PARAMETERS)

ACCEPTED_COMMANDS_LISTS ==
    <<FLOAT_PARAMETERS, BOOL_PARAMETERS, STR_PARAMETERS, NONE_PARAMETERS>>

\* x in tuple
In(x, tuple) == \E i \in 1..Len(tuple) : tuple[i] = x

HIDDEN_SOURCE_IDS == <<"airPlay", "bluetooth", "chromeCast", "generator", "local",
                       "dlna", "qplay", "wpl", "pl", "beolink", "classicsAdapter",
                       "usbIn">>

\* const.py: default values for configuration
DEFAULT_DEFAULT_VOLUME == 40
DEFAULT_MAX_VOLUME == 100
DEFAULT_VOLUME_STEP == 5

-----------------------------------------------------------------------------
(* The devices *)

\* Beolink JIDs of the devices with a media player entity in Home Assistant.
Entities == {"jid_a", "jid_b"}
\* Beolink JIDs of all devices on the network: jid_c is a Beolink peer that is
\* not configured in Home Assistant.
Jids == Entities \cup {"jid_c"}

Others(d) == Jids \ {d}

\* The sources the device API reports (get_available_sources).
ApiSources ==
    <<[id |-> "uriStreamer", name |-> "Audio Streamer", is_enabled |-> TRUE],
      [id |-> "bluetooth", name |-> "Bluetooth", is_enabled |-> TRUE],
      [id |-> "lineIn", name |-> "Line-In", is_enabled |-> TRUE],
      [id |-> "spdif", name |-> "Optical", is_enabled |-> FALSE]>>

\* Serial numbers (config entry unique ids) of the devices with event entities,
\* and of the remote paired with each.
EventDevices == {"11111111", "22222222"}
RemoteOf(unique_id) == "9" \o unique_id

\* The button types and remote keys of the event platform (a few of
\* DEVICE_BUTTONS, BEO_REMOTE_KEYS with the Light and Control submenus).
DEVICE_BUTTONS == <<"Next", "PlayPause", "Preset1">>
BEO_REMOTE_SUBMENU_CONTROL == "Control"
BEO_REMOTE_SUBMENU_LIGHT == "Light"
BEO_REMOTE_KEYS == <<"Blue", "Play">>

\* event.py, async_setup_entry: the key types of the Beoremote key entities.
RemoteKeyTypes ==
    {BEO_REMOTE_SUBMENU_LIGHT \o "/" \o BEO_REMOTE_KEYS[i] : i \in DOMAIN BEO_REMOTE_KEYS}
    \cup {BEO_REMOTE_SUBMENU_CONTROL \o "/" \o BEO_REMOTE_KEYS[i] :
              i \in DOMAIN BEO_REMOTE_KEYS}

\* event.py, async_setup_entry: one button entity per device button and one
\* key entity per submenu and key of the first paired remote.
EventEntities ==
    {[class |-> "BangOlufsenButtonEvent", unique_id |-> u, type |-> DEVICE_BUTTONS[i]] :
        u \in EventDevices, i \in DOMAIN DEVICE_BUTTONS}
    \cup {[class |-> "BangOlufsenRemoteKeyEvent", unique_id |-> u, type |-> k] :
              u \in EventDevices, k \in RemoteKeyTypes}

\* Lists of distinct JIDs, none of them d, of length at most n.
RECURSIVE ListenerLists(_, _)
ListenerLists(S, n) ==
    IF n = 0 \/ S = {} THEN {<<>>}
    ELSE {<<>>} \cup UNION {{<<x>> \o l : l \in ListenerLists(S \ {x}, n - 1)} : x \in S}

-----------------------------------------------------------------------------
(* The effects of one handler run, threaded through its statements *)

Cur == [tasks |-> tasks, published |-> published, executed |-> executed,
        requests |-> requests, log |-> log, escaped |-> escaped,
        playback_progress |-> playback_progress, last_update |-> last_update,
        background |-> background]

\* _LOGGER.error(msg)
LogError(st, msg) == [st EXCEPT !.log = Append(@, msg)]

\* an exception leaves the handler
Escape(st, exc) == [st EXCEPT !.escaped = Append(@, exc)]

\* self._client.<req>(arg, async_req=True) of entity d
ClientRequest(st, d, req, arg) ==
    [st EXCEPT !.requests[d] = Append(@, [req |-> req, arg |-> arg, num |-> 0])]

\* self._client.set_current_volume_level(VolumeLevel(level=level), async_req=True)
SetCurrentVolumeLevel(st, d, level) ==
    [st EXCEPT !.requests[d] =
        Append(@, [req |-> "set_current_volume_level", arg |-> "", num |-> level])]

\* async_dispatcher_send(hass, f"{jid}_{signal}", *args): one job per connected
\* target is scheduled on the event loop; a signal nobody listens to is dropped.
AsyncDispatcherSend(st, jid, signal, args) ==
    LET job == [target |-> jid, signal |-> signal, args |-> args]
    IN [st EXCEPT !.published = Append(@, [topic |-> <<jid, signal>>, args |-> args]),
                  !.tasks = IF jid \in registered THEN Append(@, job) ELSE @]

-----------------------------------------------------------------------------
(* media_player.py: the source property *)

\* const.py, SourceEnum: the friendly names of the device sources.
SourceEnum ==
    [uriStreamer |-> "Audio Streamer", bluetooth |-> "Bluetooth",
     chromeCast |-> "Chromecast built-in", lineIn |-> "Line-In",
     spdif |-> "Optical", netRadio |-> "B&O Radio", deezer |-> "Deezer"]

\* PlaybackContentMetadata() and Source() as BangOlufsenVariables makes them.
NoMetadata == [title |-> None, art |-> None, remote_leader |-> None]
NoSource == [id |-> None, name |-> None]

\* _playback_source stays the Source() of BangOlufsenVariables: no handler
\* assigns it.
PlaybackSourceName == None

\* Lines 788-823: the source property, read from the metadata and the source
\* change last notified.  art is None, "empty" (a list of length 0) or "some".
SourceOf(metadata, change) ==
    IF metadata.title = SourceEnum.lineIn THEN SourceEnum.lineIn
    ELSE IF metadata.title = SourceEnum.bluetooth THEN SourceEnum.bluetooth
    ELSE IF change.id \in {SourceEnum.bluetooth, SourceEnum.lineIn, SourceEnum.spdif}
         THEN SourceEnum.chromeCast
    ELSE IF metadata.art = "empty" /\ PlaybackSourceName = SourceEnum.bluetooth
         THEN SourceEnum.bluetooth
    ELSE change.name

\* self.source of entity d
Source(d) == SourceOf(playback_metadata[d], source_change[d])

-----------------------------------------------------------------------------
(* media_player.py: the commands a Beolink command can run *)

\* async_set_volume_level(volume)
AsyncSetVolumeLevel(st, d, volume) ==
    SetCurrentVolumeLevel(st, d, Times100(volume.v))

\* async_mute_volume(mute)
AsyncMuteVolume(st, d, mute) ==
    ClientRequest(st, d, "set_volume_mute", mute.v)

\* Position of the first x in list (list.index)
Index(list, x) == CHOOSE i \in 1..Len(list) :
                     list[i] = x /\ \A j \in 1..(i - 1) : list[j] # x

\* Mutant: the index is used on the sources as the device lists them.
AsyncSelectSourceApiIndex(st, d, source) ==
    IF In(source.v, source_list_friendly[d])
    THEN ClientRequest(st, d, "set_active_source",
                       ApiSources[Index(source_list_friendly[d], source.v)].id)
    ELSE LogError(st, "Invalid source")

\* async_select_source(source)
AsyncSelectSource(st, d, source) ==
    IF In(source.v, source_list_friendly[d])
    THEN ClientRequest(st, d, "set_active_source",
                       source_list[d][Index(source_list_friendly[d], source.v)])
    ELSE LogError(st, "Invalid source")

\* async_media_play()
AsyncMediaPlay(st, d) == ClientRequest(st, d, "post_playback_command", "play")

\* async_media_pause(), async_media_stop(), async_media_next_track(),
\* async_media_previous_track()
AsyncMediaPause(st, d) == ClientRequest(st, d, "post_playback_command", "pause")
AsyncMediaStop(st, d) == ClientRequest(st, d, "post_playback_command", "stop")
AsyncMediaNextTrack(st, d) == ClientRequest(st, d, "post_playback_command", "skip")
AsyncMediaPreviousTrack(st, d) == ClientRequest(st, d, "post_playback_command", "prev")

\* min, max
Min(a, b) == IF a < b THEN a ELSE b
Max(a, b) == IF a > b THEN a ELSE b

\* Mutant: the step is added and the maximum forgotten.
AsyncVolumeUpUnclamped(st, d) ==
    SetCurrentVolumeLevel(st, d, current_volume[d] + volume_step[d])

\* async_volume_up()
AsyncVolumeUp(st, d) ==
    SetCurrentVolumeLevel(st, d, Min(current_volume[d] + volume_step[d], max_volume[d]))

\* async_volume_down()
AsyncVolumeDown(st, d) ==
    SetCurrentVolumeLevel(st, d, Max(current_volume[d] - volume_step[d], 0))

\* Mutant: the source is not looked at.
AsyncMediaSeekAnySource(st, d, position) ==
    [st EXCEPT !.requests[d] = Append(@, [req |-> "seek_to_position", arg |-> "",
                                          num |-> IntTimes1000(position.v)]),
               !.last_update[d] = now,
               !.playback_progress[d] = IntOf(position.v)]

\* async_media_seek(position)
AsyncMediaSeek(st, d, position) ==
    IF Source(d) = SourceEnum.deezer
    THEN [st EXCEPT !.requests[d] = Append(@, [req |-> "seek_to_position", arg |-> "",
                                               num |-> IntTimes1000(position.v)]),
                    !.last_update[d] = now,
                    !.playback_progress[d] = IntOf(position.v)]
    ELSE LogError(st, "Seeking is currently only supported when using Deezer")

\* await getattr(self, f"async_{command}")(*args).  media_play_pause and
\* toggle are recorded without their request.
RunCommand(st, d, command, args) ==
    LET st1 == [st EXCEPT !.executed[d] = Append(@, <<command>> \o args)]
    IN CASE command = "set_volume_level" -> AsyncSetVolumeLevel(st1, d, args[1])
         [] command = "mute_volume" -> AsyncMuteVolume(st1, d, args[1])
         [] command = "select_source" -> AsyncSelectSource(st1, d, args[1])
         [] command = "media_play" -> AsyncMediaPlay(st1, d)
         [] command = "media_pause" -> AsyncMediaPause(st1, d)
         [] command = "media_stop" -> AsyncMediaStop(st1, d)
         [] command = "media_next_track" -> AsyncMediaNextTrack(st1, d)
         [] command = "media_previous_track" -> AsyncMediaPreviousTrack(st1, d)
         [] command = "media_seek" -> AsyncMediaSeek(st1, d, args[1])
         [] command = "volume_up" -> AsyncVolumeUp(st1, d)
         [] command = "volume_down" -> AsyncVolumeDown(st1, d)
         [] OTHER -> st1

-----------------------------------------------------------------------------
(* media_player.py: async_beolink_leader_command *)

\* Mutant: the command is run although it was forwarded (the else is lost).
ForwardAndRun(st, d, command, parameter, parameter_type) ==
    LET st1 == IF remote_leader[d] # None
               THEN AsyncDispatcherSend(st, remote_leader[d], BEOLINK_LEADER_COMMAND,
                                        <<PyStr(command), parameter>>)
               ELSE st
    IN IF parameter # PyNone
       THEN RunCommand(st1, d, command, <<CallType(parameter_type, parameter).val>>)
       ELSE RunCommand(st1, d, command, <<>>)

\* Lines 1182-1199: forward to the leader if a listener, else run the command.
ForwardOrRun(st, d, command, parameter, parameter_type) ==
    IF remote_leader[d] # None
    THEN AsyncDispatcherSend(st, remote_leader[d], BEOLINK_LEADER_COMMAND,
                             <<PyStr(command), parameter>>)
    ELSE IF parameter # PyNone
         THEN LET c == CallType(parameter_type, parameter)
              IN IF c.ok THEN RunCommand(st, d, command, <<c.val>>)
                 ELSE Escape(st, c.exc)
         ELSE IF parameter_type = None
              THEN RunCommand(st, d, command, <<>>)
              ELSE st

\* The loop over ACCEPTED_COMMANDS_LISTS from list i on; `parameter` is
\* reassigned by the conversion and carried to the next iteration.
RECURSIVE LeaderCommandFrom(_, _, _, _, _)
LeaderCommandFrom(st, d, command, parameter, i) ==
    IF i > Len(ACCEPTED_COMMANDS_LISTS) THEN st
    ELSE LET command_list == ACCEPTED_COMMANDS_LISTS[i]
             parameter_type == command_list[Len(command_list)]
         IN IF ~In(command, command_list)
            THEN LeaderCommandFrom(st, d, command, parameter, i + 1)
            ELSE IF parameter_type # None
                 THEN LET c == CallType(parameter_type, parameter)
                      IN IF ~c.ok
                         THEN LogError(st, "Invalid parameter")
                         ELSE LET st1 == ForwardOrRun(st, d, command, c.val,
                                                      parameter_type)
                              IN IF Len(st1.escaped) > Len(st.escaped) THEN st1
                                 ELSE LeaderCommandFrom(st1, d, command, c.val, i + 1)
                 ELSE IF parameter # PyNone
                      THEN LogError(st, "Invalid parameter")
                      ELSE LeaderCommandFrom(
                               ForwardOrRun(st, d, command, parameter, parameter_type),
                               d, command, parameter, i + 1)

\* Mutant: a parameter given to a command that takes none is not rejected.
AsyncBeolinkLeaderCommandUnchecked(st, d, command, parameter) ==
    IF In(command, ButLast(NONE_PARAMETERS))
    THEN ForwardOrRun(st, d, command, PyNone, None)
    ELSE LeaderCommandFrom(st, d, command, parameter, 1)

AsyncBeolinkLeaderCommand(st, d, command, parameter) ==
    LeaderCommandFrom(st, d, command, parameter, 1)

-----------------------------------------------------------------------------
(* media_player.py: async_beolink_listener_command *)

RECURSIVE ListenerCommandFrom(_, _, _, _, _)
ListenerCommandFrom(st, d, command, parameter, i) ==
    IF i > Len(ACCEPTED_COMMANDS_LISTS) THEN st
    ELSE LET command_list == ACCEPTED_COMMANDS_LISTS[i]
             parameter_type == command_list[Len(command_list)]
         IN IF ~In(command, command_list)
            THEN ListenerCommandFrom(st, d, command, parameter, i + 1)
            ELSE IF parameter # PyNone
                 THEN LET c == CallType(parameter_type, parameter)
                      IN IF ~c.ok THEN Escape(st, c.exc)
                         ELSE ListenerCommandFrom(
                                  RunCommand(st, d, command, <<c.val>>),
                                  d, command, parameter, i + 1)
                 ELSE IF parameter_type = None
                      THEN ListenerCommandFrom(RunCommand(st, d, command, <<>>),
                                               d, command, parameter, i + 1)
                      ELSE ListenerCommandFrom(st, d, command, parameter, i + 1)

AsyncBeolinkListenerCommand(st, d, command, parameter) ==
    ListenerCommandFrom(st, d, command, parameter, 1)

-----------------------------------------------------------------------------
(* media_player.py: async_beolink_set_volume *)

\* Lines 1215-1221: one listener command per entry of _beolink_listeners, in order.
RECURSIVE SendToListeners(_, _, _)
SendToListeners(st, listeners, volume_level) ==
    IF listeners = <<>> THEN st
    ELSE SendToListeners(
             AsyncDispatcherSend(st, Head(listeners), BEOLINK_LISTENER_COMMAND,
                                 <<PyStr("set_volume_level"), volume_level>>),
             Tail(listeners), volume_level)

\* Mutant: the leader relays the level without setting its own volume.
AsyncBeolinkSetVolumeRelayOnly(st, d, volume_level) ==
    IF remote_leader[d] # None
    THEN AsyncDispatcherSend(st, remote_leader[d], BEOLINK_VOLUME, <<volume_level>>)
    ELSE SendToListeners(st, beolink_listeners[d], volume_level)

AsyncBeolinkSetVolume(st, d, volume_level) ==
    IF remote_leader[d] # None
    THEN AsyncDispatcherSend(st, remote_leader[d], BEOLINK_VOLUME, <<volume_level>>)
    ELSE LET c == PyFloatOf(volume_level)
         IN IF ~c.ok THEN Escape(st, c.exc)
            ELSE SendToListeners(AsyncSetVolumeLevel(st, d, c.val),
                                 beolink_listeners[d], volume_level)

-----------------------------------------------------------------------------
(* media_player.py: bangolufsen_init and _update_beolink *)

\* Lines 391-395: the enabled sources that are not hidden, field f of each.
RECURSIVE EnabledSources(_, _)
EnabledSources(items, f) ==
    IF items = <<>> THEN <<>>
    ELSE LET source == Head(items)
         IN (IF source.is_enabled /\ ~In(source.id, HIDDEN_SOURCE_IDS)
             THEN <<source[f]>> ELSE <<>>) \o EnabledSources(Tail(items), f)

\* Lines 468-478: _get_entity_id_from_jid, a lookup in the entity registry by
\* the serial number of the JID; None for a device without an entity.
GetEntityIdFromJid(jid) ==
    IF jid \in Entities THEN "media_player." \o jid ELSE None

\* The entity ids of a list of JIDs.
EntityIds(jids) == [i \in 1..Len(jids) |-> GetEntityIdFromJid(jids[i])]

\* Mutant: the remote leader of the metadata is kept whatever the source.
UpdateBeolinkKeepLeader(d, metadata_leader, source, api_listeners) ==
    LET leader == metadata_leader
        listeners == IF leader # None THEN beolink_listeners[d] ELSE api_listeners
    IN [remote_leader |-> leader,
        beolink_listeners |-> listeners,
        group_members |-> IF leader # None
                          THEN <<GetEntityIdFromJid(leader)>>
                          ELSE <<GetEntityIdFromJid(d)>> \o EntityIds(listeners)]

\* Lines 527-574: _remote_leader, _beolink_listeners and the group members
\* after _update_beolink, given the metadata's remote leader, the current
\* source and the listeners the device reports.
UpdateBeolink(d, metadata_leader, source, api_listeners) ==
    LET leader == IF source \in {SourceEnum.lineIn, SourceEnum.uriStreamer} THEN None
                  ELSE metadata_leader
        listeners == IF leader # None THEN beolink_listeners[d] ELSE api_listeners
    IN [remote_leader |-> leader,
        beolink_listeners |-> listeners,
        group_members |-> IF leader # None
                          THEN <<GetEntityIdFromJid(leader)>>
                          ELSE <<GetEntityIdFromJid(d)>> \o EntityIds(listeners)]

\* The metadata notified in the relay: any remote leader, or none.
RelayMetadata(d) ==
    {[title |-> None, art |-> None, remote_leader |-> l] : l \in Others(d) \cup {None}}

\* What get_product_state answers in the relay: the source is Deezer.

RelayProductStates(d) ==
    {[volume |-> 0, has_metadata |-> TRUE, metadata |-> m, progress |-> 0,
      state |-> "started", source |-> [id |-> "deezer", name |-> SourceEnum.deezer]] : m \in RelayMetadata(d)}

-----------------------------------------------------------------------------
(* The relay: actions *)

Apply(st) ==
    /\ tasks' = st.tasks
    /\ published' = st.published
    /\ executed' = st.executed
    /\ requests' = st.requests
    /\ log' = st.log
    /\ escaped' = st.escaped
    /\ playback_progress' = st.playback_progress
    /\ last_update' = st.last_update
    /\ background' = st.background

\* Lines 508-574 on entity d, once the metadata and the source are assigned.
RunUpdateBeolink(d, metadata, change, listeners) ==
    LET u == UpdateBeolink(d, metadata.remote_leader, SourceOf(metadata, change),
                           listeners)
    IN /\ remote_leader' = [remote_leader EXCEPT ![d] = u.remote_leader]
       /\ beolink_listeners' = [beolink_listeners EXCEPT ![d] = u.beolink_listeners]
       /\ group_members' = [group_members EXCEPT ![d] = u.group_members]

\* async_added_to_hass: connect the dispatchers, then bangolufsen_init, given
\* what get_product_state and get_beolink_listeners answer.  The metadata of
\* the product state is kept only when it is not None (lines 411-415).
AddedToHass(d, product_state, listeners) ==
    /\ d \notin registered
    /\ registered' = registered \cup {d}
    /\ source_list' = [source_list EXCEPT ![d] = EnabledSources(ApiSources, "id")]
    /\ source_list_friendly' =
           [source_list_friendly EXCEPT ![d] = EnabledSources(ApiSources, "name")]
    /\ current_volume' = [current_volume EXCEPT ![d] = product_state.volume]
    /\ LET metadata == IF product_state.has_metadata THEN product_state.metadata
                        ELSE playback_metadata[d]
       IN /\ playback_metadata' = [playback_metadata EXCEPT ![d] = metadata]
          /\ RunUpdateBeolink(d, metadata, product_state.source, listeners)
    /\ playback_progress' = [playback_progress EXCEPT ![d] = product_state.progress]
    /\ source_change' = [source_change EXCEPT ![d] = product_state.source]
    /\ playback_state' = [playback_state EXCEPT ![d] = product_state.state]
    /\ last_update' = [last_update EXCEPT ![d] = now]
    /\ updated' = (updated \/ calls # <<>>)
    /\ UNCHANGED <<tasks, published, executed, requests, log, escaped, calls,
                   max_volume, volume_step, state, now, background>>

\* _update_playback_metadata: a metadata notification of the device.
UpdatePlaybackMetadata(d, data, listeners) ==
    /\ d \in registered
    /\ playback_metadata' = [playback_metadata EXCEPT ![d] = data]
    /\ RunUpdateBeolink(d, data, source_change[d], listeners)
    /\ updated' = (updated \/ calls # <<>>)
    /\ UNCHANGED <<registered, source_list, source_list_friendly, tasks, published,
                   executed, requests, log, escaped, calls,
                   max_volume, volume_step, current_volume, source_change,
                   playback_progress, last_update, state, playback_state, now,
                   background>>

\* The commands and parameters the beolink_leader_command service is called with.
ServiceCommands == {"set_volume_level", "mute_volume", "select_source", "media_play"}
ServiceParameters == {PyNone, PyStr("0.5"), PyStr("Line-In")}
ServiceVolumeLevels == {PyStr("0.5"), PyStr("Line-In")}

\* Service beolink_leader_command on entity d.
CallLeaderCommand(d, command, parameter) ==
    /\ d \in registered
    /\ Len(calls) < MaxCalls
    /\ calls' = Append(calls, [service |-> "beolink_leader_command", entity |-> d,
                               args |-> <<PyStr(command), parameter>>])
    /\ Apply(AsyncBeolinkLeaderCommand(Cur, d, command, parameter))
    /\ UNCHANGED <<registered, remote_leader, beolink_listeners, source_list,
                   source_list_friendly, updated, entityFrame>>

\* Service beolink_set_volume on entity d.
CallSetVolume(d, volume_level) ==
    /\ d \in registered
    /\ Len(calls) < MaxCalls
    /\ calls' = Append(calls, [service |-> "beolink_set_volume", entity |-> d,
                               args |-> <<volume_level>>])
    /\ Apply(AsyncBeolinkSetVolume(Cur, d, volume_level))
    /\ UNCHANGED <<registered, remote_leader, beolink_listeners, source_list,
                   source_list_friendly, updated, entityFrame>>

\* Mutant: no handler is connected to BEOLINK_LEADER_COMMAND.
RunJobLeaderUnconnected(st, job) ==
    CASE job.signal = BEOLINK_LEADER_COMMAND -> st
      [] job.signal = BEOLINK_LISTENER_COMMAND ->
             AsyncBeolinkListenerCommand(st, job.target, job.args[1].v, job.args[2])
      [] job.signal = BEOLINK_VOLUME ->
             AsyncBeolinkSetVolume(st, job.target, job.args[1])

\* The event loop runs the oldest scheduled dispatcher job (lines 314-328).
RunJob(st, job) ==
    CASE job.signal = BEOLINK_LEADER_COMMAND ->
             AsyncBeolinkLeaderCommand(st, job.target, job.args[1].v, job.args[2])
      [] job.signal = BEOLINK_LISTENER_COMMAND ->
             AsyncBeolinkListenerCommand(st, job.target, job.args[1].v, job.args[2])
      [] job.signal = BEOLINK_VOLUME ->
             AsyncBeolinkSetVolume(st, job.target, job.args[1])

Deliver ==
    /\ tasks # <<>>
    /\ Len(published) < MaxPublished
    /\ Apply(RunJob([Cur EXCEPT !.tasks = Tail(tasks)], Head(tasks)))
    /\ UNCHANGED <<registered, remote_leader, beolink_listeners, source_list,
                   source_list_friendly, calls, updated, entityFrame>>

\* The entity fields after BangOlufsenVariables.__init__ and
\* BangOlufsenMediaPlayer.__init__, but for the entry's volume settings.
EntityFieldsInit ==
    /\ current_volume = [d \in Entities |-> 0]
    /\ playback_metadata = [d \in Entities |-> NoMetadata]
    /\ source_change = [d \in Entities |-> NoSource]
    /\ playback_progress = [d \in Entities |-> 0]
    /\ last_update = [d \in Entities |-> 0]
    /\ state = [d \in Entities |-> "idle"]
    /\ playback_state = [d \in Entities |-> None]
    /\ group_members = [d \in Entities |-> <<>>]
    /\ now = 1
    /\ background = <<>>

\* The entries hold the default volume settings.
DefaultSettingsInit ==
    /\ max_volume = [d \in Entities |-> DEFAULT_MAX_VOLUME]
    /\ volume_step = [d \in Entities |-> DEFAULT_VOLUME_STEP]

\* No event entity is added, no notification sent.
EventInit ==
    /\ connected = {}
    /\ triggered = [e \in EventEntities |-> <<>>]
    /\ written = [e \in EventEntities |-> 0]
    /\ notifications = <<>>

\* No options flow is started.
OptionsInit ==
    /\ option_flows = <<>>
    /\ option_entries = <<>>

\* No entity is added, nothing was called or sent.
RelayFieldsInit ==
    /\ registered = {}
    /\ remote_leader = [d \in Entities |-> None]
    /\ beolink_listeners = [d \in Entities |-> <<>>]
    /\ source_list = [d \in Entities |-> <<>>]
    /\ source_list_friendly = [d \in Entities |-> <<>>]
    /\ tasks = <<>>
    /\ published = <<>>
    /\ executed = [d \in Entities |-> <<>>]
    /\ requests = [d \in Entities |-> <<>>]
    /\ log = <<>>
    /\ escaped = <<>>
    /\ calls = <<>>
    /\ updated = FALSE

RelayInit ==
    /\ EntityFieldsInit
    /\ DefaultSettingsInit
    /\ EventInit
    /\ OptionsInit
    /\ RelayFieldsInit
    /\ flows = <<>>
    /\ entries = <<>>

RelayNext ==
    \/ \E d \in Entities :
           \E listeners \in ListenerLists(Others(d), MaxListeners),
              product_state \in RelayProductStates(d) :
               AddedToHass(d, product_state, listeners) /\ UNCHANGED outsideEntity
    \/ \E d \in Entities :
           \E listeners \in ListenerLists(Others(d), MaxListeners),
              data \in RelayMetadata(d) :
               UpdatePlaybackMetadata(d, data, listeners) /\ UNCHANGED outsideEntity
    \/ \E d \in Entities, command \in ServiceCommands, parameter \in ServiceParameters :
           CallLeaderCommand(d, command, parameter) /\ UNCHANGED outsideEntity
    \/ \E d \in Entities, volume_level \in ServiceVolumeLevels :
           CallSetVolume(d, volume_level) /\ UNCHANGED outsideEntity
    \/ Deliver /\ UNCHANGED outsideEntity

SpecRelay == RelayInit /\ [][RelayNext]_vars

\* The event loop runs every job it has scheduled.
SpecRelayFair == SpecRelay /\ WF_vars(Deliver /\ UNCHANGED outsideEntity)

-----------------------------------------------------------------------------
(* The relay: vocabulary of the properties *)

\* The parameter type const.py gives a command.
ParameterTypeOf(command) ==
    LET i == CHOOSE k \in 1..Len(ACCEPTED_COMMANDS_LISTS) :
                 In(command, ButLast(ACCEPTED_COMMANDS_LISTS[k]))
    IN ACCEPTED_COMMANDS_LISTS[i][Len(ACCEPTED_COMMANDS_LISTS[i])]

\* A command without parameter gets none; any other parameter converts to the
\* command's type.
ValidParameter(command, parameter) ==
    IF ParameterTypeOf(command) = None THEN parameter = PyNone
    ELSE CallType(ParameterTypeOf(command), parameter).ok

\* The handler a step runs: a service call, or the dispatcher job at the head
\* of the event loop's queue; NoRun for a step that runs neither.
NoRun == [service |-> "", signal |-> "", entity |-> "", args |-> <<>>]
SignalOf(service) == IF service = "beolink_leader_command" THEN BEOLINK_LEADER_COMMAND
                     ELSE BEOLINK_VOLUME
StepRun ==
    IF Len(calls') = Len(calls) + 1
    THEN [service |-> Last(calls').service, signal |-> SignalOf(Last(calls').service),
          entity |-> Last(calls').entity, args |-> Last(calls').args]
    ELSE IF calls' = calls /\ tasks # <<>> /\ tasks' # tasks
         THEN [service |-> "", signal |-> Head(tasks).signal,
               entity |-> Head(tasks).target, args |-> Head(tasks).args]
         ELSE NoRun

LeaderCommandRuns == StepRun.signal = BEOLINK_LEADER_COMMAND
SetVolumeRuns == StepRun.signal = BEOLINK_VOLUME

\* The jobs still scheduled when the handler of this step starts.
JobsBefore == IF calls' = calls THEN Tail(tasks) ELSE tasks

-----------------------------------------------------------------------------
(* C1 *)

C1_Step ==
    LET d == StepRun.entity
        command == StepRun.args[1].v
        parameter == StepRun.args[2]
    IN  LeaderCommandRuns /\ ValidParameter(command, parameter)
        => IF remote_leader[d] # None
           THEN /\ Len(published') = Len(published) + 1
                /\ SubSeq(published', 1, Len(published)) = published
                /\ Last(published').topic = <<remote_leader[d], BEOLINK_LEADER_COMMAND>>
                /\ Last(published').args[1] = PyStr(command)
                /\ executed' = executed
                /\ requests' = requests
           ELSE /\ published' = published
                /\ tasks' = JobsBefore
                /\ Len(executed'[d]) = Len(executed[d]) + 1
                /\ SubSeq(executed'[d], 1, Len(executed[d])) = executed[d]
                /\ Last(executed'[d])[1] = command
                /\ \A e \in Entities \ {d} : executed'[e] = executed[e]

\* C1: a run of async_beolink_leader_command with an accepted command and a
\* valid parameter publishes the command exactly once on the remote leader's
\* BEOLINK_LEADER_COMMAND topic and runs nothing on the entity when
\* _remote_leader is set, and runs the command exactly once on the entity and
\* publishes nothing when _remote_leader is None.
C1_ForwardXorRun == [][C1_Step]_vars

\* A listener has forwarded a valid command to its leader.
C1_Witness ==
    /\ Len(calls) = 1
    /\ calls[1].service = "beolink_leader_command"
    /\ remote_leader[calls[1].entity] # None
    /\ ValidParameter(calls[1].args[1].v, calls[1].args[2])
    /\ ~updated
    /\ Len(published) = 1
    /\ published[1].topic = <<remote_leader[calls[1].entity], BEOLINK_LEADER_COMMAND>>

-----------------------------------------------------------------------------
(* C8 *)

C8_Step ==
    LET command == StepRun.args[1].v
        parameter == StepRun.args[2]
    IN  LeaderCommandRuns /\ ~ValidParameter(command, parameter)
        => /\ log' = Append(log, "Invalid parameter")
           /\ executed' = executed
           /\ requests' = requests
           /\ published' = published
           /\ tasks' = JobsBefore
           /\ escaped' = escaped

\* C8: when a command that takes no parameter is given one, or the parameter
\* does not convert to the command's type, async_beolink_leader_command logs
\* "Invalid parameter" and neither runs the command nor forwards it.
C8_InvalidParameterRejected == [][C8_Step]_vars

\* Both kinds of invalid parameter have been rejected on some entity.
C8_Witness ==
    /\ Len(calls) = 1
    /\ calls[1].service = "beolink_leader_command"
    /\ ~ValidParameter(calls[1].args[1].v, calls[1].args[2])
    /\ ParameterTypeOf(calls[1].args[1].v) = "float"
    /\ calls[1].args[2] = PyStr("Line-In")
    /\ log = <<"Invalid parameter">>

-----------------------------------------------------------------------------
(* C2 *)

\* Exactly one service call was made, beolink_leader_command with a valid
\* parameter on a listener L whose leader D is a registered entity without a
\* remote leader, and _update_beolink has not run since.
C2_Pre ==
    /\ Len(calls) = 1
    /\ calls[1].service = "beolink_leader_command"
    /\ ValidParameter(calls[1].args[1].v, calls[1].args[2])
    /\ ~updated
    /\ remote_leader[calls[1].entity] \in registered
    /\ remote_leader[remote_leader[calls[1].entity]] = None

C2_Safe ==
    LET L == calls[1].entity
        D == remote_leader[L]
        command == calls[1].args[1].v
    IN /\ Len(published) = 1
       /\ executed[L] = <<>>
       /\ IF tasks = <<>>
          THEN Len(executed[D]) = 1 /\ executed[D][1][1] = command
          ELSE /\ executed[D] = <<>>
               /\ Len(tasks) = 1
               /\ tasks[1].target = D
               /\ tasks[1].signal = BEOLINK_LEADER_COMMAND

\* C2: deliver once.  After one call of async_beolink_leader_command with a
\* valid command on listener L, whose leader D is registered and has no remote
\* leader, the command is published once, never run on L, run on D not before
\* the job is delivered and exactly once when it is, and it is delivered.
C2_DeliverOnce ==
    /\ [](C2_Pre => C2_Safe)
    /\ (C2_Pre ~> (updated \/ Len(calls) # 1 \/ (C2_Pre /\ tasks = <<>>)))

\* The leader has run the command a listener forwarded.
C2_Witness ==
    /\ C2_Pre
    /\ tasks = <<>>
    /\ Len(executed[remote_leader[calls[1].entity]]) = 1
    /\ executed[calls[1].entity] = <<>>

-----------------------------------------------------------------------------
(* C3 *)

Range(s) == {s[i] : i \in 1..Len(s)}

SetVolumeRequest(volume_level) ==
    [req |-> "set_current_volume_level", arg |-> "", num |-> Times100(volume_level.v)]

\* The listener commands a leader publishes for a volume level, in listener order.
ListenerVolumeSignals(listeners, volume_level) ==
    [i \in 1..Len(listeners) |->
        [topic |-> <<listeners[i], BEOLINK_LISTENER_COMMAND>>,
         args |-> <<PyStr("set_volume_level"), volume_level>>]]

C3_Step ==
    LET d == StepRun.entity
        volume_level == StepRun.args[1]
    IN  SetVolumeRuns /\ PyFloatOf(volume_level).ok
        => IF remote_leader[d] # None
           THEN /\ published' = Append(published,
                                       [topic |-> <<remote_leader[d], BEOLINK_VOLUME>>,
                                        args |-> <<volume_level>>])
                /\ requests' = requests
                /\ executed' = executed
           ELSE /\ requests' = [requests EXCEPT
                                   ![d] = Append(@, SetVolumeRequest(volume_level))]
                /\ published' = published \o
                       ListenerVolumeSignals(beolink_listeners[d], volume_level)

\* The Beolink leader of entity m's group.
LeaderOf(m) == IF remote_leader[m] = None THEN m ELSE remote_leader[m]

\* The group led by D is consistent: D is a registered entity without remote
\* leader, its listeners are registered entities, and an entity is among its
\* listeners exactly if D is its remote leader.
ConsistentGroup(D) ==
    /\ D \in registered
    /\ remote_leader[D] = None
    /\ Range(beolink_listeners[D]) \subseteq registered
    /\ \A e \in Entities \ {D} :
           e \in Range(beolink_listeners[D]) <=> remote_leader[e] = D

\* Exactly one service call was made, beolink_set_volume with a level float()
\* parses on a member of a consistent group, and _update_beolink has not run
\* since.
C3_Pre ==
    /\ Len(calls) = 1
    /\ calls[1].service = "beolink_set_volume"
    /\ PyFloatOf(calls[1].args[1]).ok
    /\ ~updated
    /\ ConsistentGroup(LeaderOf(calls[1].entity))

C3_Done ==
    LET D == LeaderOf(calls[1].entity)
        members == {D} \cup Range(beolink_listeners[D])
    IN /\ \A m \in members : requests[m] = <<SetVolumeRequest(calls[1].args[1])>>
       /\ \A e \in Entities \ members : requests[e] = <<>>

\* C3: async_beolink_set_volume with a valid level, run on an entity without
\* remote leader, sends the entity's own set-volume request and publishes one
\* set_volume_level listener command with that level per entry of
\* _beolink_listeners; run on a listener it only publishes the level on the
\* leader's BEOLINK_VOLUME topic.  After one call in a consistent group, once
\* the jobs are run every member has received exactly one set-volume request
\* with that level, and the jobs are run.
C3_SetVolumeForGroup ==
    /\ [][C3_Step]_vars
    /\ []((C3_Pre /\ tasks = <<>>) => C3_Done)
    /\ (C3_Pre ~> (updated \/ Len(calls) # 1 \/ (C3_Pre /\ tasks = <<>>)))

\* A listener's call has set the volume of the leader and of the listener.
C3_Witness ==
    /\ C3_Pre
    /\ remote_leader[calls[1].entity] # None
    /\ tasks = <<>>
    /\ Len(published) = 2
    /\ C3_Done

-----------------------------------------------------------------------------
(* config_flow.py: values *)


\* A host is the dotted text the user types or Zeroconf reports, as the
\* sequence of its dot-separated numbers.  ipaddress.ip_address accepts it if
\* it has four numbers from 0 to 255.
NoHost == <<>>
IpAddressOk(host) == Len(host) = 4 /\ \A i \in 1..4 : host[i] \in 0..255

\* A Beolink JID "tn.in.sn@products.bang-olufsen.com", as str.split(".") cuts
\* it, each part as str.split("@") cuts it.
Jid(tn, in, sn) == <<<<tn>>, <<in>>, <<sn, "products">>, <<"bang-olufsen">>, <<"com">>>>
NoJid == <<>>

\* jid.split(".")[2].split("@")[0]
SerialNumberOf(jid) == jid[3][1]

Serials == {"11111111", "22222222"}
UserHosts == {<<192, 168, 0, 10>>, <<192, 168, 0, 11>>, <<192, 168, 0, 256>>}
UserModels == {"Beosound Balance"}

\* What the device at a host answers to get_beolink_self.
BeolinkSelfOf(serial) == [jid |-> Jid("1111", "1111111", serial)]

\* The exceptions a client request raises, with their base classes:
\* mozart_api NotFoundException is an ApiException, aiohttp
\* ClientProxyConnectionError is a ClientConnectorError.
RequestExceptions == {"ApiException", "NotFoundException", "ClientConnectorError",
                      "ClientProxyConnectionError", "TimeoutError"}
BaseOf(exc) ==
    CASE exc = "NotFoundException" -> "ApiException"
      [] exc = "ClientProxyConnectionError" -> "ClientConnectorError"
      [] OTHER -> exc

\* except (ApiException, ClientConnectorError, TimeoutError)
Caught(exc) == BaseOf(exc) \in {"ApiException", "ClientConnectorError", "TimeoutError"}

\* Lines 149-153: the dict of reasons, keyed by exception class.
AbortReasons == [ApiException |-> "api_exception",
                 ClientConnectorError |-> "client_connector_error",
                 TimeoutError |-> "timeout_error"]

\* Zeroconf discoveries: hostname[:-16].replace("-", " ") of the hostname is
\* carried as `model`.
Discoveries ==
    {[host |-> h, hostname |-> "Beosound-Level-" \o sn \o ".local.",
      model |-> "Beosound Level",
      properties |-> [fn |-> "Living Room", sn |-> sn, tn |-> "1111", in |-> "1111111"]]
        : h \in {<<192, 168, 0, 10>>, <<192, 168, 0, 11>>}, sn \in Serials}
    \cup {[host |-> <<192, 168, 0, 12>>, hostname |-> "printer.local.", model |-> "",
           properties |-> [fn |-> "", sn |-> "", tn |-> "", in |-> ""]]}

\* ATTR_FRIENDLY_NAME in discovery_info.properties
HasFriendlyName(info) == info.properties.fn # ""

FlowIds == 1..MaxFlows

\* A flow handler as constructed (lines 87-92), with the host's flow context.
NewFlow(source) ==
    [source |-> source, step |-> "none", reason |-> "",
     host |-> NoHost, model |-> "", name |-> "", serial_number |-> "",
     beolink_jid |-> NoJid, clients |-> 0, unique_id |-> None,
     title_placeholder |-> "",
     submits |-> 0,          \* calls of async_step_user with user input
     self_requests |-> 0,    \* get_beolink_self requests sent
     error |-> "",           \* what the last get_beolink_self raised
     escaped |-> ""]         \* the exception that left the last step

InProgress(fl) == fl.step \in {"user", "confirm"}

-----------------------------------------------------------------------------
(* The host's flow helpers, as config_flow.py uses them.  A step yields      *)
(* [flow, entries]; AbortFlow ends it with step "abort".                     *)

Abort(fl, ents, reason) ==
    [flow |-> [fl EXCEPT !.step = "abort", !.reason = reason], entries |-> ents]

\* An exception leaves the step: the flow stays at the step it was at.
StepRaises(fl, ents, exc) ==
    [flow |-> [fl EXCEPT !.escaped = exc], entries |-> ents]

\* async_set_unique_id raises AbortFlow("already_in_progress") if another flow
\* in progress has the unique id.
UniqueIdInProgress(i, unique_id) ==
    \E j \in DOMAIN flows : j # i /\ InProgress(flows[j]) /\ flows[j].unique_id = unique_id

\* _abort_if_unique_id_configured(updates): the entries after the updates.
UniqueIdConfigured(ents, unique_id) ==
    \E k \in 1..Len(ents) : ents[k].unique_id = unique_id

UpdateHost(ents, unique_id, host) ==
    [k \in 1..Len(ents) |->
        IF ents[k].unique_id = unique_id
        THEN [ents[k] EXCEPT !.data.host = host] ELSE ents[k]]

\* async_create_entry: the host removes an entry with the same unique id and
\* adds the new one.
RECURSIVE WithoutUniqueId(_, _)
WithoutUniqueId(ents, unique_id) ==
    IF ents = <<>> THEN <<>>
    ELSE (IF Head(ents).unique_id = unique_id THEN <<>> ELSE <<Head(ents)>>)
             \o WithoutUniqueId(Tail(ents), unique_id)

AsyncCreateEntry(fl, ents, title, data) ==
    [flow |-> [fl EXCEPT !.step = "create_entry"],
     entries |-> Append(WithoutUniqueId(ents, fl.unique_id),
                        [unique_id |-> fl.unique_id, title |-> title, data |-> data])]

-----------------------------------------------------------------------------
(* config_flow.py: BangOlufsenConfigFlowHandler *)

\* What get_volume_settings answers: levels (0 when unset), or an exception.
VolumeOutcomes ==
    {[exc |-> "", default |-> 30, maximum |-> 80],
     [exc |-> "", default |-> 0, maximum |-> 0],
     [exc |-> "TimeoutError", default |-> 0, maximum |-> 0]}

\* What get_beolink_self answers: the serial number of the device, or an exception.
SelfOutcomes ==
    {[exc |-> "", serial |-> sn] : sn \in Serials}
    \cup {[exc |-> e, serial |-> ""] : e \in RequestExceptions}

\* Lines 99-122: _compile_data, given the volume settings.
CompileData(fl, volume_settings) ==
    [default_volume |-> IF volume_settings.default # 0 THEN volume_settings.default
                        ELSE DEFAULT_DEFAULT_VOLUME,
     host |-> fl.host,
     jid |-> fl.beolink_jid,
     max_volume |-> IF volume_settings.maximum # 0 THEN volume_settings.maximum
                    ELSE DEFAULT_MAX_VOLUME,
     model |-> fl.model]

\* Mutant: the entry is named after the discovered friendly name.
FriendlyTitle(fl) ==
    IF fl.title_placeholder # "" THEN fl.title_placeholder
    ELSE fl.model \o "-" \o fl.serial_number

\* Line 210: f"{self._model}-{self._serial_number}"
ConfirmTitle(fl) == fl.model \o "-" \o fl.serial_number

\* Lines 205-207: async_step_confirm(user_input) of a flow, given what
\* get_volume_settings answers.
AsyncStepConfirmInput(fl, ents, volume_outcome) ==
    IF volume_outcome.exc # ""
    THEN StepRaises(fl, ents, volume_outcome.exc)
    ELSE AsyncCreateEntry([fl EXCEPT !.escaped = ""], ents, fl.name,
                          CompileData(fl, volume_outcome))

\* Lines 209-225: async_step_confirm() of flow i shows the confirm form.
AsyncStepConfirm(i, fl, ents) ==
    LET fl1 == [fl EXCEPT !.name = ConfirmTitle(fl)]
    IN IF UniqueIdInProgress(i, fl1.serial_number)
       THEN Abort(fl1, ents, "already_in_progress")
       ELSE LET fl2 == [fl1 EXCEPT !.unique_id = fl1.serial_number]
            IN IF UniqueIdConfigured(ents, fl2.serial_number)
               THEN Abort(fl2, ents, "already_configured")
               ELSE [flow |-> [fl2 EXCEPT !.step = "confirm"], entries |-> ents]

\* Lines 147-154: the except clause of the user step.
HandleRequestError(fl, ents, exc) ==
    IF ~Caught(exc) THEN StepRaises(fl, ents, exc)
    ELSE IF exc \in DOMAIN AbortReasons
         THEN Abort(fl, ents, AbortReasons[exc])
         ELSE StepRaises(fl, ents, "KeyError")

\* Mutant: the client is made before the host is checked.
ValidateHostLate(fl) ==
    [ok |-> IpAddressOk(fl.host), flow |-> [fl EXCEPT !.clients = @ + 1]]

\* Lines 128-138: the host the user gave is checked before a client is made.
ValidateHost(fl) ==
    IF IpAddressOk(fl.host)
    THEN [ok |-> TRUE, flow |-> [fl EXCEPT !.clients = @ + 1]]
    ELSE [ok |-> FALSE, flow |-> fl]

\* Lines 164-174: async_step_user() shows the user form.
AsyncStepUserForm(fl, ents) ==
    [flow |-> [fl EXCEPT !.step = "user"], entries |-> ents]

\* Lines 128-162: async_step_user(user_input) of flow i, given what
\* get_beolink_self answers.
AsyncStepUser(i, fl, ents, user_input, outcome) ==
    LET fl1 == [fl EXCEPT !.host = user_input.host, !.model = user_input.model,
                          !.submits = @ + 1, !.escaped = "", !.error = ""]
        v == ValidateHost(fl1)
    IN IF ~v.ok THEN Abort(v.flow, ents, "value_error")
       ELSE LET fl2 == [v.flow EXCEPT !.self_requests = @ + 1,
                                      !.error = outcome.exc]
            IN IF outcome.exc # ""
               THEN HandleRequestError(fl2, ents, outcome.exc)
               ELSE LET beolink_self == BeolinkSelfOf(outcome.serial)
                        fl3 == [fl2 EXCEPT
                                   !.beolink_jid = beolink_self.jid,
                                   !.serial_number = SerialNumberOf(beolink_self.jid)]
                    IN IF UniqueIdInProgress(i, fl3.serial_number)
                       THEN Abort(fl3, ents, "already_in_progress")
                       ELSE LET fl4 == [fl3 EXCEPT !.unique_id = fl3.serial_number]
                            IN IF UniqueIdConfigured(ents, fl4.serial_number)
                               THEN Abort(fl4, ents, "already_configured")
                               ELSE AsyncStepConfirm(i, fl4, ents)

\* Mutant: no updates are given.
ZeroconfNoUpdates(ents, fl) == ents

\* Line 195: the updates given to _abort_if_unique_id_configured.
ZeroconfUpdates(ents, fl) == UpdateHost(ents, fl.serial_number, fl.host)

\* Lines 176-199: async_step_zeroconf of flow i.
AsyncStepZeroconf(i, fl, ents, discovery_info) ==
    IF ~HasFriendlyName(discovery_info)
    THEN Abort(fl, ents, "not_mozart_device")
    ELSE LET p == discovery_info.properties
             fl1 == [fl EXCEPT !.host = discovery_info.host,
                               !.model = discovery_info.model,
                               !.serial_number = p.sn,
                               !.beolink_jid = Jid(p.tn, p.in, p.sn),
                               !.title_placeholder = p.fn]
         IN IF UniqueIdInProgress(i, fl1.serial_number)
            THEN Abort(fl1, ents, "already_in_progress")
            ELSE LET fl2 == [fl1 EXCEPT !.unique_id = fl1.serial_number]
                 IN IF UniqueIdConfigured(ents, fl2.serial_number)
                    THEN Abort(fl2, ZeroconfUpdates(ents, fl2), "already_configured")
                    ELSE AsyncStepConfirm(i, [fl2 EXCEPT !.clients = @ + 1], ents)

-----------------------------------------------------------------------------
(* The config flows: actions *)

\* The flows after flow i ran a step with result r; a created entry ends the
\* other flows in progress for the same unique id.
FlowsAfter(fls, i, r) ==
    [j \in 1..Len(fls) |->
        IF j = i THEN r.flow
        ELSE IF r.flow.step = "create_entry" /\ InProgress(fls[j])
                /\ fls[j].unique_id = r.flow.unique_id
             THEN [fls[j] EXCEPT !.step = "abort", !.reason = "already_configured"]
             ELSE fls[j]]

\* The user starts a flow: async_step_user() shows the user form.
StartUserFlow ==
    /\ Len(flows) < MaxFlows
    /\ LET r == AsyncStepUserForm(NewFlow("user"), entries)
       IN /\ flows' = Append(flows, r.flow)
          /\ entries' = r.entries
    /\ UNCHANGED <<relayVars, entityVars, eventVars, optionVars>>

\* The user submits the user form: async_step_user(user_input).
SubmitUser(i, host, model, outcome) ==
    /\ i \in DOMAIN flows
    /\ flows[i].source = "user"
    /\ flows[i].step = "user"
    /\ flows[i].submits < MaxSubmits
    /\ LET r == AsyncStepUser(i, flows[i], entries,
                              [host |-> host, model |-> model], outcome)
       IN /\ flows' = FlowsAfter(flows, i, r)
          /\ entries' = r.entries
    /\ UNCHANGED <<relayVars, entityVars, eventVars, optionVars>>

\* Zeroconf discovers a device: a flow starts with async_step_zeroconf.
DiscoverZeroconf(discovery_info) ==
    /\ Len(flows) < MaxFlows
    /\ LET i == Len(flows) + 1
           r == AsyncStepZeroconf(i, NewFlow("zeroconf"), entries, discovery_info)
       IN /\ flows' = Append(flows, r.flow)
          /\ entries' = r.entries
    /\ UNCHANGED <<relayVars, entityVars, eventVars, optionVars>>

\* The user submits the confirm form: async_step_confirm(user_input).
SubmitConfirm(i, volume_outcome) ==
    /\ i \in DOMAIN flows
    /\ flows[i].step = "confirm"
    /\ LET r == AsyncStepConfirmInput(flows[i], entries, volume_outcome)
       IN /\ flows' = FlowsAfter(flows, i, r)
          /\ entries' = r.entries
    /\ UNCHANGED <<relayVars, entityVars, eventVars, optionVars>>

FlowInit ==
    /\ EntityFieldsInit
    /\ DefaultSettingsInit
    /\ EventInit
    /\ OptionsInit
    /\ flows = <<>>
    /\ entries = <<>>
    /\ registered = {}
    /\ remote_leader = [d \in Entities |-> None]
    /\ beolink_listeners = [d \in Entities |-> <<>>]
    /\ source_list = [d \in Entities |-> <<>>]
    /\ source_list_friendly = [d \in Entities |-> <<>>]
    /\ tasks = <<>>
    /\ published = <<>>
    /\ executed = [d \in Entities |-> <<>>]
    /\ requests = [d \in Entities |-> <<>>]
    /\ log = <<>>
    /\ escaped = <<>>
    /\ calls = <<>>
    /\ updated = FALSE

FlowNext ==
    \/ StartUserFlow
    \/ \E i \in FlowIds, host \in UserHosts, model \in UserModels,
          outcome \in SelfOutcomes : SubmitUser(i, host, model, outcome)
    \/ \E discovery_info \in Discoveries : DiscoverZeroconf(discovery_info)
    \/ \E i \in FlowIds, volume_outcome \in VolumeOutcomes :
           SubmitConfirm(i, volume_outcome)

SpecFlow == FlowInit /\ [][FlowNext]_vars

-----------------------------------------------------------------------------
(* C4 *)

\* C4: whenever the get_beolink_self request of the user step raised one of
\* the exceptions the step catches, the flow is aborted with the reason of
\* the exception's kind (api_exception, client_connector_error,
\* timeout_error) after that one request, and no exception left the step.
C4_CaughtExceptionsAbort ==
    \A i \in DOMAIN flows :
        (flows[i].error # "" /\ Caught(flows[i].error))
        => /\ flows[i].step = "abort"
           /\ flows[i].reason = AbortReasons[BaseOf(flows[i].error)]
           /\ flows[i].escaped = ""
           /\ flows[i].self_requests = flows[i].submits

-----------------------------------------------------------------------------
(* C5 *)

\* A flow of the user step holding a host that is no IP address is aborted.
C5_Inv ==
    \A i \in DOMAIN flows :
        (flows[i].source = "user" /\ flows[i].host # NoHost
            /\ ~IpAddressOk(flows[i].host))
        => /\ flows[i].step = "abort"
           /\ flows[i].reason = "value_error"

\* The user step given such a host makes no client and sends no request.
C5_Step ==
    \A i \in DOMAIN flows :
        (flows'[i].submits = flows[i].submits + 1 /\ ~IpAddressOk(flows'[i].host))
        => /\ flows'[i].step = "abort"
           /\ flows'[i].reason = "value_error"
           /\ flows'[i].clients = flows[i].clients
           /\ flows'[i].self_requests = flows[i].self_requests
           /\ entries' = entries

\* C5: a user step given a host that is no IP address aborts the flow with
\* reason value_error, with no client created, no request sent and the
\* config entries as they were.
C5_InvalidHostAborts == []C5_Inv /\ [][C5_Step]_vars

\* A flow was aborted because of the host the user gave.
C5_Witness ==
    \E i \in DOMAIN flows :
        /\ flows[i].host = <<192, 168, 0, 256>>
        /\ flows[i].reason = "value_error"
        /\ flows[i].submits >= 1

-----------------------------------------------------------------------------
(* C6 *)

C6_Inv ==
    \A k, l \in 1..Len(entries) :
        k # l => entries[k].unique_id # entries[l].unique_id

\* Flow i ran a step in this step of the system.
FlowRan(i) == i \in DOMAIN flows' /\ (i \in DOMAIN flows => flows'[i] # flows[i])

C6_Step ==
    \A i \in DOMAIN flows' :
        (FlowRan(i) /\ flows'[i].serial_number # ""
            /\ UniqueIdConfigured(entries, flows'[i].serial_number))
        => /\ flows'[i].step = "abort"
           /\ flows'[i].reason = "already_configured"
           /\ Len(entries') = Len(entries)
           /\ \A k \in 1..Len(entries) :
                  /\ entries'[k].unique_id = entries[k].unique_id
                  /\ entries'[k].title = entries[k].title
                  /\ (flows'[i].source = "zeroconf"
                        /\ entries[k].unique_id = flows'[i].serial_number)
                     => entries'[k].data.host = flows'[i].host

\* C6: no two config entries have the same serial number as unique id; a flow
\* that runs a step for a serial number that is configured aborts with
\* already_configured and creates no entry, and when it is a Zeroconf flow
\* the host of the configured entry becomes the discovered host.
C6_OneEntryPerSerial == []C6_Inv /\ [][C6_Step]_vars

\* Zeroconf found a configured device at another host than the one its entry
\* was created with, and the entry has the discovered host.
C6_Witness ==
    \E i, j \in DOMAIN flows :
        /\ flows[i].source = "zeroconf"
        /\ flows[i].reason = "already_configured"
        /\ flows[j].step = "create_entry"
        /\ flows[j].unique_id = flows[i].serial_number
        /\ flows[j].host # flows[i].host
        /\ \E k \in 1..Len(entries) :
               /\ entries[k].unique_id = flows[i].serial_number
               /\ entries[k].data.host = flows[i].host

-----------------------------------------------------------------------------
(* C7 *)

FriendlyNames == {info.properties.fn : info \in Discoveries}

C7_Inv ==
    \A k \in 1..Len(entries) :
        /\ entries[k].title = entries[k].data.model \o "-" \o entries[k].unique_id
        /\ entries[k].title # ""
        /\ entries[k].title \notin FriendlyNames

\* The unique ids and titles of the entries.
EntryNames(ents) ==
    [k \in 1..Len(ents) |-> <<ents[k].unique_id, ents[k].title>>]

C7_Step ==
    EntryNames(entries') # EntryNames(entries)
    => /\ Len(entries') = Len(entries) + 1
       /\ \E i \in DOMAIN flows :
              /\ flows[i].step = "confirm"
              /\ flows[i].name # ""
              /\ flows'[i].step = "create_entry"
              /\ Last(entries').unique_id = flows[i].unique_id

\* C7: an entry is only created by a confirm step with user input of a flow
\* whose confirm form is shown, and every entry's title is
\* "<model>-<serial number>", not empty and no friendly name.
C7_EntryFromConfirm == []C7_Inv /\ [][C7_Step]_vars

\* A Zeroconf flow, which knows a friendly name, has created an entry.
C7_Witness ==
    \E i \in DOMAIN flows :
        /\ flows[i].source = "zeroconf"
        /\ flows[i].title_placeholder # ""
        /\ flows[i].step = "create_entry"
        /\ \E k \in 1..Len(entries) : entries[k].unique_id = flows[i].unique_id

-----------------------------------------------------------------------------
(* media_player.py: async_play_media *)

\* const.py: BangOlufsenMediaType and the host's MediaType
VALID_MEDIA_TYPES == <<"favourite", "deezer", "radio", "provider", "music", "url",
                       "channel">>

\* The media ids of the model.  media_source.is_media_source_id holds of the
\* ids with the media-source scheme; async_resolve_media and
\* async_process_play_media_url turn such an id into a URL of the host.
MediaIds == {"media-source://media_source/local/song.mp3",
             "media-source://media_source/local/list.m3u",
             "http://radio.example/stream", "3", "flow", "playlist:1234", "5678"}

IsMediaSourceId(media_id) ==
    media_id \in {"media-source://media_source/local/song.mp3",
                  "media-source://media_source/local/list.m3u"}

ProcessPlayMediaUrl(media_id) ==
    IF media_id = "media-source://media_source/local/song.mp3"
    THEN "http://hass.local:8123/media/local/song.mp3"
    ELSE "http://hass.local:8123/media/local/list.m3u"

\* Lines 1017-1018: a playlist extension is removed.
WithoutM3u(url) ==
    IF url = "http://hass.local:8123/media/local/list.m3u"
    THEN "http://hass.local:8123/media/local/list"
    ELSE url

\* any(match in media_id for match in ("playlist", "album"))
IsPlaylistOrAlbum(media_id) == media_id = "playlist:1234"

\* kwargs[ATTR_MEDIA_EXTRA]: the host's schema gives the service an `extra`
\* dict, empty by default.
MediaExtras == {[has_id |-> FALSE, id |-> "", has_start_from |-> FALSE, start_from |-> 0],
                [has_id |-> TRUE, id |-> "user1", has_start_from |-> FALSE, start_from |-> 0],
                [has_id |-> FALSE, id |-> "", has_start_from |-> TRUE, start_from |-> 2]}

\* self._client.add_to_queue(PlayQueueItem(provider deezer, ...))
AddToQueue(st, d, type, uri, start_now_from_position) ==
    [st EXCEPT !.requests[d] =
        Append(@, [req |-> "add_to_queue_" \o type, arg |-> uri,
                   num |-> start_now_from_position])]

\* Lines 1035-1080: the Deezer branch.
PlayDeezer(st, d, media_id, extra) ==
    IF media_id = "flow"
    THEN ClientRequest(st, d, "start_deezer_flow",
                       IF extra.has_id THEN extra.id ELSE None)
    ELSE IF IsPlaylistOrAlbum(media_id)
         THEN AddToQueue(st, d, "playlist", media_id,
                         IF extra.has_start_from THEN extra.start_from ELSE 0)
         ELSE AddToQueue(st, d, "track", media_id, 0)

\* Lines 1028-1080: the request of a valid media type.
PlayByType(st, d, media_type, media_id, extra) ==
    CASE media_type = "url" -> ClientRequest(st, d, "post_uri_source", media_id)
      [] media_type = "favourite" -> ClientRequest(st, d, "activate_preset", media_id)
      [] media_type = "deezer" -> PlayDeezer(st, d, media_id, extra)
      [] OTHER -> st

\* Mutant: the media type is not checked against VALID_MEDIA_TYPES.
AsyncPlayMediaUnchecked(st, d, media_type, media_id, extra) ==
    LET type1 == IF IsMediaSourceId(media_id) THEN "url" ELSE media_type
        id1 == IF IsMediaSourceId(media_id)
               THEN WithoutM3u(ProcessPlayMediaUrl(media_id)) ELSE media_id
    IN PlayByType(st, d, type1, id1, extra)

\* Lines 999-1080: async_play_media(media_type, media_id, extra=extra)
AsyncPlayMedia(st, d, media_type, media_id, extra) ==
    LET type1 == IF IsMediaSourceId(media_id) THEN "url" ELSE media_type
        id1 == IF IsMediaSourceId(media_id)
               THEN WithoutM3u(ProcessPlayMediaUrl(media_id)) ELSE media_id
    IN IF ~In(type1, VALID_MEDIA_TYPES)
       THEN LogError(st, "invalid type")
       ELSE PlayByType(st, d, type1, id1, extra)

\* The media types the play_media service is called with.
ServiceMediaTypes == {"url", "favourite", "deezer", "radio", "provider", "music",
                      "channel", "audio/mpeg", "playlist"}

\* Service play_media on entity d.
CallPlayMedia(d, media_type, media_id, extra) ==
    /\ d \in registered
    /\ Len(calls) < MaxCalls
    /\ calls' = Append(calls, [service |-> "play_media", entity |-> d,
                               args |-> <<PyStr(media_type), PyStr(media_id), extra>>])
    /\ Apply(AsyncPlayMedia(Cur, d, media_type, media_id, extra))
    /\ UNCHANGED <<registered, remote_leader, beolink_listeners, source_list,
                   source_list_friendly, updated, entityFrame>>

PlayerNext ==
    \/ \E d \in Entities :
           \E listeners \in ListenerLists(Others(d), MaxListeners),
              product_state \in RelayProductStates(d) :
               AddedToHass(d, product_state, listeners) /\ UNCHANGED outsideEntity
    \/ \E d \in Entities, media_type \in ServiceMediaTypes, media_id \in MediaIds,
          extra \in MediaExtras :
           CallPlayMedia(d, media_type, media_id, extra) /\ UNCHANGED outsideEntity

SpecPlayer == RelayInit /\ [][PlayerNext]_vars

-----------------------------------------------------------------------------
(* C9 *)

PlayMediaRuns ==
    Len(calls') = Len(calls) + 1 /\ Last(calls').service = "play_media"

\* The entity state a service call could touch.
EntityStateUnchanged ==
    UNCHANGED <<registered, remote_leader, beolink_listeners, source_list,
                source_list_friendly, tasks, published, executed, entityVars>>

C9_NothingSent ==
    /\ log' = Append(log, "invalid type")
    /\ requests' = requests
    /\ escaped' = escaped
    /\ EntityStateUnchanged

C9_OriginalStep ==
    (PlayMediaRuns /\ ~In(Last(calls').args[1].v, VALID_MEDIA_TYPES))
    => C9_NothingSent

\* C9 as claimed: async_play_media with a media type that is not in
\* VALID_MEDIA_TYPES logs an error, sends no request and changes no entity
\* state.
C9_InvalidTypeSendsNothing == [][C9_OriginalStep]_vars

C9_AmendedStep ==
    (PlayMediaRuns /\ ~In(Last(calls').args[1].v, VALID_MEDIA_TYPES)
        /\ ~IsMediaSourceId(Last(calls').args[2].v))
    => C9_NothingSent

\* C9 amended: async_play_media with a media type that is not in
\* VALID_MEDIA_TYPES and a media id that is no media-source id logs an error,
\* sends no request and changes no entity state.
C9_InvalidTypePlainIdSendsNothing == [][C9_AmendedStep]_vars

\* An invalid media type with a plain media id has been refused.
C9_Witness ==
    /\ Len(calls) = 1
    /\ calls[1].service = "play_media"
    /\ calls[1].args[1].v = "audio/mpeg"
    /\ calls[1].args[2].v = "http://radio.example/stream"
    /\ log = <<"invalid type">>
    /\ requests[calls[1].entity] = <<>>

-----------------------------------------------------------------------------
(* C10 *)

\* The play requests of each kind of media.
PlayRequestsOf(media_type) ==
    CASE media_type = "url" -> {"post_uri_source"}
      [] media_type = "favourite" -> {"activate_preset"}
      [] media_type = "deezer" ->
             {"start_deezer_flow", "add_to_queue_playlist", "add_to_queue_track"}
      [] media_type = "radio" -> {"run_provided_scene", "post_radio"}
      [] OTHER -> {}

C10_Step ==
    LET d == Last(calls').entity
        media_type == Last(calls').args[1].v
    IN (PlayMediaRuns /\ media_type \in {"radio", "url", "favourite", "deezer"}
           /\ ~IsMediaSourceId(Last(calls').args[2].v))
       => /\ Len(requests'[d]) = Len(requests[d]) + 1
          /\ Last(requests'[d]).req \in PlayRequestsOf(media_type)

\* C10: for each of the media types radio, url, favourite and deezer, a call
\* of async_play_media sends one play request of the corresponding kind to
\* the device.
C10_PlaysEveryKind == [][C10_Step]_vars

-----------------------------------------------------------------------------
(* media_player.py: the entity on its own.  The handlers below read and     *)
(* write the fields of one entity; they are run on the entities of Acting. *)

Acting == {"jid_a"}

\* What the device API answers and notifies.
DeviceVolumes == {0, 3, 98}
DeviceMetadata(d) ==
    {[title |-> t, art |-> None, remote_leader |-> l] :
        t \in {None, SourceEnum.lineIn}, l \in {None, "jid_b", "jid_c"} \ {d}}
DeviceSources ==
    {[id |-> "deezer", name |-> SourceEnum.deezer],
     [id |-> "lineIn", name |-> SourceEnum.lineIn],
     [id |-> "uriStreamer", name |-> SourceEnum.uriStreamer],
     [id |-> "netRadio", name |-> SourceEnum.netRadio]}
DeviceListeners(d) == {<<>>, <<"jid_c", "jid_b">>} \cup {<<j>> : j \in {"jid_b"} \ {d}}

\* get_product_state at start-up.
EntityProductStates(d) ==
    {[volume |-> v, has_metadata |-> h, metadata |-> m, progress |-> 0,
      state |-> "started", source |-> src] :
        v \in DeviceVolumes, h \in BOOLEAN, m \in DeviceMetadata(d), src \in DeviceSources}

\* The names the select_source service is called with.
ServiceSourceNames == {"Line-In", "Audio Streamer", "Bluetooth", "Optical", "lineIn"}

\* Service select_source on entity d.
CallSelectSource(d, source) ==
    /\ d \in registered
    /\ Len(calls) < MaxCalls
    /\ calls' = Append(calls, [service |-> "select_source", entity |-> d,
                               args |-> <<PyStr(source)>>])
    /\ Apply(AsyncSelectSource(Cur, d, PyStr(source)))
    /\ UNCHANGED <<registered, remote_leader, beolink_listeners, source_list,
                   source_list_friendly, updated, entityFrame>>

\* Service media_seek on entity d.
CallMediaSeek(d, position) ==
    /\ d \in registered
    /\ Len(calls) < MaxCalls
    /\ calls' = Append(calls, [service |-> "media_seek", entity |-> d,
                               args |-> <<PyFloat(position)>>])
    /\ Apply(AsyncMediaSeek(Cur, d, PyFloat(position)))
    /\ UNCHANGED <<registered, remote_leader, beolink_listeners, source_list,
                   source_list_friendly, updated, entityFrame>>

\* Services volume_up and volume_down on entity d.
CallVolumeUp(d) ==
    /\ d \in registered
    /\ Len(calls) < MaxCalls
    /\ calls' = Append(calls, [service |-> "volume_up", entity |-> d, args |-> <<>>])
    /\ Apply(AsyncVolumeUp(Cur, d))
    /\ UNCHANGED <<registered, remote_leader, beolink_listeners, source_list,
                   source_list_friendly, updated, entityFrame>>

CallVolumeDown(d) ==
    /\ d \in registered
    /\ Len(calls) < MaxCalls
    /\ calls' = Append(calls, [service |-> "volume_down", entity |-> d, args |-> <<>>])
    /\ Apply(AsyncVolumeDown(Cur, d))
    /\ UNCHANGED <<registered, remote_leader, beolink_listeners, source_list,
                   source_list_friendly, updated, entityFrame>>

\* _update_volume: a volume notification of the device.
UpdateVolume(d, level) ==
    /\ d \in registered
    /\ current_volume' = [current_volume EXCEPT ![d] = level]
    /\ UNCHANGED <<relayVars, max_volume, volume_step, playback_metadata,
                   source_change, playback_progress, last_update, state,
                   playback_state, group_members, now, background>>

\* An optional int argument: not given (None), or an int.
NoInt == [given |-> FALSE, v |-> 0]
SomeInt(n) == [given |-> TRUE, v |-> n]

\* Truth value of an optional int and of an optional str: None, 0 and ""
\* are false.
TruthyInt(x) == x.given /\ x.v # 0
TruthyStr(x) == x # None /\ x # ""

\* self._client.post_overlay_play(OverlayPlayRequest(..., volume_absolute=volume))
PostOverlayPlay(st, d, kind, content, overlay_volume) ==
    [st EXCEPT !.requests[d] =
        Append(@, [req |-> "post_overlay_play", arg |-> content, kind |-> kind,
                   volume_absolute |-> overlay_volume])]

\* Lines 1223-1278: async_overlay_audio
AsyncOverlayAudio(st, d, uri, absolute_volume, volume_offset, tts) ==
    IF TruthyInt(absolute_volume) /\ TruthyInt(volume_offset)
    THEN LogError(st, "Can't define absolute volume and volume offset at the same time")
    ELSE IF TruthyStr(tts) /\ TruthyStr(uri)
    THEN LogError(st, "Can't define URI and TTS message at the same time")
    ELSE LET overlay_volume ==
                 IF TruthyInt(absolute_volume) THEN SomeInt(absolute_volume.v)
                 ELSE IF TruthyInt(volume_offset)
                      THEN SomeInt(Min(current_volume[d] + volume_offset.v, 100))
                      ELSE NoInt
         IN IF TruthyStr(uri)
            THEN PostOverlayPlay(st, d, "uri",
                                 IF IsMediaSourceId(uri) THEN ProcessPlayMediaUrl(uri)
                                 ELSE uri,
                                 overlay_volume)
            ELSE IF TruthyStr(tts)
                 THEN PostOverlayPlay(st, d, "text_to_speech", tts, overlay_volume)
                 ELSE st

\* The arguments the overlay_audio service is called with: the schema takes
\* any string and any int of 0..100.
OverlayUris == {None, "", "http://radio.example/stream",
                "media-source://media_source/local/song.mp3"}
OverlayTexts == {None, "", "Hello"}
OverlayVolumes == {NoInt, SomeInt(0), SomeInt(60)}
OverlayOffsets == {NoInt, SomeInt(0), SomeInt(10)}

\* Service overlay_audio on entity d.
CallOverlayAudio(d, uri, absolute_volume, volume_offset, tts) ==
    /\ d \in registered
    /\ Len(calls) < MaxCalls
    /\ calls' = Append(calls, [service |-> "overlay_audio", entity |-> d,
                               args |-> <<uri, absolute_volume, volume_offset, tts>>])
    /\ Apply(AsyncOverlayAudio(Cur, d, uri, absolute_volume, volume_offset, tts))
    /\ UNCHANGED <<registered, remote_leader, beolink_listeners, source_list,
                   source_list_friendly, updated, entityFrame>>

\* Time passes.
Tick ==
    /\ now < MaxTime
    /\ now' = now + 1
    /\ UNCHANGED <<relayVars, max_volume, volume_step, current_volume,
                   playback_metadata, source_change, playback_progress, last_update,
                   state, playback_state, group_members, background>>

EntityNext ==
    \/ \E d \in Acting :
           \E listeners \in DeviceListeners(d), product_state \in EntityProductStates(d) :
               AddedToHass(d, product_state, listeners) /\ UNCHANGED outsideEntity
    \/ \E d \in Acting, source \in ServiceSourceNames :
           CallSelectSource(d, source) /\ UNCHANGED outsideEntity
    \/ \E d \in Acting, position \in Positions :
           CallMediaSeek(d, position) /\ UNCHANGED outsideEntity
    \/ \E d \in Acting, uri \in OverlayUris, absolute_volume \in OverlayVolumes,
          volume_offset \in OverlayOffsets, tts \in OverlayTexts :
           CallOverlayAudio(d, uri, absolute_volume, volume_offset, tts)
               /\ UNCHANGED outsideEntity
    \/ \E d \in Acting : CallVolumeUp(d) /\ UNCHANGED outsideEntity
    \/ \E d \in Acting : CallVolumeDown(d) /\ UNCHANGED outsideEntity
    \/ \E d \in Acting, level \in DeviceVolumes :
           UpdateVolume(d, level) /\ UNCHANGED outsideEntity
    \/ Tick /\ UNCHANGED outsideEntity

\* The volume settings entry.data holds: some of MAX_VOLUME_RANGE and
\* VOLUME_STEP_RANGE for the entities of Acting.
ConfiguredMaxVolumes == {20, 100}
ConfiguredVolumeSteps == {5, 20}

EntityInit ==
    /\ EntityFieldsInit
    /\ EventInit
    /\ OptionsInit
    /\ RelayFieldsInit
    /\ flows = <<>>
    /\ entries = <<>>
    /\ max_volume \in [Entities -> ConfiguredMaxVolumes \cup {DEFAULT_MAX_VOLUME}]
    /\ volume_step \in [Entities -> ConfiguredVolumeSteps \cup {DEFAULT_VOLUME_STEP}]
    /\ \A d \in Entities \ Acting :
           max_volume[d] = DEFAULT_MAX_VOLUME /\ volume_step[d] = DEFAULT_VOLUME_STEP

SpecEntity == EntityInit /\ [][EntityNext]_vars

-----------------------------------------------------------------------------
(* The entity: vocabulary of the properties *)

\* The step is a call of the service on an entity; its last call record.
ServiceRuns(service) ==
    /\ Len(calls') = Len(calls) + 1
    /\ calls'[Len(calls')].service = service

LastCall == calls'[Len(calls')]

\* Nothing is sent to any device, nothing is logged.
NoRequest == requests' = requests
NoLog == log' = log
OneLog == Len(log') = Len(log) + 1

\* Exactly the request r is sent to the device of d.
Sends(d, r) == requests' = [requests EXCEPT ![d] = Append(@, r)]

-----------------------------------------------------------------------------
(* C11 *)

C11_Step ==
    ServiceRuns("select_source") =>
        LET d == LastCall.entity
            name == LastCall.args[1].v
        IN IF \E i \in DOMAIN source_list_friendly[d] : source_list_friendly[d][i] = name
           THEN /\ \E i \in DOMAIN source_list_friendly[d] :
                      /\ source_list_friendly[d][i] = name
                      /\ Sends(d, [req |-> "set_active_source",
                                   arg |-> source_list[d][i], num |-> 0])
                /\ NoLog
           ELSE NoRequest /\ OneLog

\* The two source lists name the enabled, not hidden sources of the device,
\* position by position.
C11_Lists ==
    \A d \in Entities :
        /\ Len(source_list[d]) = Len(source_list_friendly[d])
        /\ \A i \in DOMAIN source_list[d] :
               \E k \in DOMAIN ApiSources :
                   /\ ApiSources[k].id = source_list[d][i]
                   /\ ApiSources[k].name = source_list_friendly[d][i]
                   /\ ApiSources[k].is_enabled

\* C11: async_select_source sends set_active_source only for a name of the
\* friendly source list, with the source id stored at that name's index (the
\* id the device reports for that name); for any other name it logs an
\* error and sends nothing.
C11_SelectSourceByIndex == []C11_Lists /\ [][C11_Step]_vars

\* Line-In was selected: its id is second in the list, third in the API's.
C11_Witness ==
    \E d \in Entities :
        /\ requests[d] = <<[req |-> "set_active_source", arg |-> "lineIn", num |-> 0]>>
        /\ calls # <<>> /\ calls[1].service = "select_source"

-----------------------------------------------------------------------------
(* C12 *)

\* A seek of another source than Deezer.
C12_Rejected(d) ==
    /\ NoRequest /\ OneLog
    /\ playback_progress' = playback_progress
    /\ last_update' = last_update

C12_OriginalStep ==
    ServiceRuns("media_seek") =>
        LET d == LastCall.entity
            position == LastCall.args[1].v
        IN IF Source(d) = "Deezer"
           THEN /\ \E ms \in 0..IntTimes1000(position) + 1 :
                      /\ ms * 10 = TenThousandths(position)
                      /\ Sends(d, [req |-> "seek_to_position", arg |-> "", num |-> ms])
                /\ playback_progress'[d] * 10000 = TenThousandths(position)
                /\ NoLog
           ELSE C12_Rejected(d)

\* C12 as claimed: for Deezer the request carries position * 1000 and the
\* stored progress is the position; for any other source the seek logs an
\* error, sends nothing and leaves the progress and the last update alone.
C12_SeekStoresPosition == [][C12_OriginalStep]_vars

C12_AmendedStep ==
    ServiceRuns("media_seek") =>
        LET d == LastCall.entity
            position == LastCall.args[1].v
        IN IF Source(d) = "Deezer"
           THEN /\ \E ms \in 0..IntTimes1000(position) :
                      /\ ms * 10 <= TenThousandths(position)
                      /\ TenThousandths(position) < (ms + 1) * 10
                      /\ Sends(d, [req |-> "seek_to_position", arg |-> "", num |-> ms])
                /\ playback_progress'[d] * 10000 <= TenThousandths(position)
                /\ TenThousandths(position) < (playback_progress'[d] + 1) * 10000
                /\ \A e \in Entities \ {d} : playback_progress'[e] = playback_progress[e]
                /\ NoLog
           ELSE C12_Rejected(d)

\* C12 amended: for Deezer the request carries the whole milliseconds of the
\* position and the stored progress is its whole seconds; for any other
\* source the seek logs an error, sends nothing and leaves the progress and
\* the last update alone.
C12_SeekStoresWholeSeconds == [][C12_AmendedStep]_vars

\* A seek to 1.5 s was sent while Deezer played.
C12_Witness ==
    \E d \in Entities :
        /\ calls # <<>> /\ calls[1].service = "media_seek"
        /\ requests[d] = <<[req |-> "seek_to_position", arg |-> "", num |-> 1500]>>
        /\ playback_progress[d] = 1

-----------------------------------------------------------------------------
(* C13 *)

\* The level of the one set_current_volume_level request the step sends.
RequestsLevel(d, n) ==
    Sends(d, [req |-> "set_current_volume_level", arg |-> "", num |-> n])

C13_Step ==
    /\ ServiceRuns("volume_up") =>
           LET d == LastCall.entity
               up == current_volume[d] + volume_step[d]
           IN \E n \in 0..max_volume[d] :
                  /\ RequestsLevel(d, n)
                  /\ n <= up
                  /\ n = up \/ n = max_volume[d]
    /\ ServiceRuns("volume_down") =>
           LET d == LastCall.entity
               down == current_volume[d] - volume_step[d]
           IN \E n \in 0..current_volume[d] :
                  /\ RequestsLevel(d, n)
                  /\ n >= down
                  /\ n = down \/ n = 0

\* C13: async_volume_up requests the smaller of level + step and the
\* configured maximum, never more than the maximum; async_volume_down
\* requests the larger of level - step and 0, never less than 0.
C13_VolumeStepsClamped == [][C13_Step]_vars

\* The maximum stopped a step up, or 0 stopped a step down.
C13_Witness ==
    \E d \in Entities :
        /\ calls # <<>> /\ Len(requests[d]) = 1
        /\ \/ /\ calls[1].service = "volume_up"
              /\ requests[d][1].num = max_volume[d]
              /\ current_volume[d] + volume_step[d] > max_volume[d]
           \/ /\ calls[1].service = "volume_down"
              /\ requests[d][1].num = 0
              /\ current_volume[d] - volume_step[d] < 0

-----------------------------------------------------------------------------
(* C14 *)

C14_Step ==
    ServiceRuns("overlay_audio") =>
        LET d == LastCall.entity
            uri == LastCall.args[1]
            absolute_volume == LastCall.args[2]
            volume_offset == LastCall.args[3]
            tts == LastCall.args[4]
            sent == Len(requests'[d]) - Len(requests[d])
        IN /\ \A e \in Entities \ {d} : requests'[e] = requests[e]
           /\ (absolute_volume.given /\ volume_offset.given) => sent = 0
           /\ (uri # None /\ tts # None) => sent = 0
           /\ sent <= 1
           /\ (sent = 1 /\ ~absolute_volume.given /\ volume_offset.given)
                  => LET r == requests'[d][Len(requests'[d])]
                     IN /\ r.req = "post_overlay_play"
                        /\ r.volume_absolute.given
                        /\ r.volume_absolute.v
                               = Min(current_volume[d] + volume_offset.v, 100)
                        /\ r.volume_absolute.v <= 100

\* C14: async_overlay_audio sends nothing when absolute_volume and
\* volume_offset are both given, or uri and tts are both given; otherwise it
\* sends at most one overlay request, and a volume computed from
\* volume_offset is min(level + offset, 100), never above 100.
C14_OverlayRejectsConflicts == [][C14_Step]_vars

-----------------------------------------------------------------------------
(* media_player.py: async_beolink_expand and async_beolink_unexpand *)

\* check_valid_jid of the vendor client: the strings it accepts among those
\* the services are called with.
ServiceJids == {"jid_b", "jid_c", "1111.2222222.33333333@products.bang-olufsen.co"}
CheckValidJid(beolink_jid) == beolink_jid \in Jids

\* Lists of at most n of the strings of S, repeats included.
RECURSIVE JidLists(_, _)
JidLists(S, n) ==
    IF n = 0 THEN {<<>>}
    ELSE {<<>>} \cup {<<x>> \o l : x \in S, l \in JidLists(S, n - 1)}

\* The first position of beolink_jids holding an invalid JID, 0 if none.
FirstInvalid(beolink_jids) ==
    IF \A i \in DOMAIN beolink_jids : CheckValidJid(beolink_jids[i]) THEN 0
    ELSE CHOOSE i \in DOMAIN beolink_jids :
             /\ ~CheckValidJid(beolink_jids[i])
             /\ \A j \in 1..(i - 1) : CheckValidJid(beolink_jids[j])

\* self.hass.async_create_task(coroutine(beolink_jids)): the task has sent
\* nothing yet; sent_at lists where its requests stand among the entity's.
AsyncCreateTask(st, d, coroutine, beolink_jids) ==
    [st EXCEPT !.background =
        Append(@, [entity |-> d, coroutine |-> coroutine,
                   beolink_jids |-> beolink_jids, sent_at |-> <<>>])]

\* Mutant: each JID is handled as soon as it is found valid.
AsyncBeolinkExpandEager(st, d, beolink_jids) ==
    IF FirstInvalid(beolink_jids) = 0
    THEN AsyncCreateTask(st, d, "_beolink_expand", beolink_jids)
    ELSE AsyncCreateTask(LogError(st, "Invalid Beolink JID"), d, "_beolink_expand",
                         SubSeq(beolink_jids, 1, FirstInvalid(beolink_jids) - 1))

\* Lines 1105-1113: async_beolink_expand
AsyncBeolinkExpand(st, d, beolink_jids) ==
    IF FirstInvalid(beolink_jids) # 0
    THEN LogError(st, "Invalid Beolink JID")
    ELSE AsyncCreateTask(st, d, "_beolink_expand", beolink_jids)

\* Lines 1121-1128: async_beolink_unexpand
AsyncBeolinkUnexpand(st, d, beolink_jids) ==
    IF FirstInvalid(beolink_jids) # 0
    THEN st
    ELSE AsyncCreateTask(st, d, "_beolink_unexpand", beolink_jids)

\* The request of each coroutine.
RequestOf(coroutine) ==
    IF coroutine = "_beolink_expand" THEN "post_beolink_expand"
    ELSE "post_beolink_unexpand"

\* Lines 1115-1119, 1130-1134: one turn of the loop of _beolink_expand or
\* _beolink_unexpand, from one asyncio.sleep(1) to the next.
BeolinkExpandTurn(st, i) ==
    LET t == st.background[i]
        k == Len(t.sent_at) + 1
        st1 == ClientRequest(st, t.entity, RequestOf(t.coroutine), t.beolink_jids[k])
    IN [st1 EXCEPT !.background[i].sent_at = Append(@, Len(st1.requests[t.entity]))]

\* Services beolink_expand and beolink_unexpand on entity d.
CallBeolinkExpand(d, beolink_jids) ==
    /\ d \in registered
    /\ Len(calls) < MaxTasks
    /\ calls' = Append(calls, [service |-> "beolink_expand", entity |-> d,
                               args |-> <<beolink_jids>>])
    /\ Apply(AsyncBeolinkExpand(Cur, d, beolink_jids))
    /\ UNCHANGED <<registered, remote_leader, beolink_listeners, source_list,
                   source_list_friendly, updated, entityFrame>>

CallBeolinkUnexpand(d, beolink_jids) ==
    /\ d \in registered
    /\ Len(calls) < MaxTasks
    /\ calls' = Append(calls, [service |-> "beolink_unexpand", entity |-> d,
                               args |-> <<beolink_jids>>])
    /\ Apply(AsyncBeolinkUnexpand(Cur, d, beolink_jids))
    /\ UNCHANGED <<registered, remote_leader, beolink_listeners, source_list,
                   source_list_friendly, updated, entityFrame>>

\* The event loop resumes background task i.
RunBackground(i) ==
    /\ i \in DOMAIN background
    /\ Len(background[i].sent_at) < Len(background[i].beolink_jids)
    /\ Apply(BeolinkExpandTurn(Cur, i))
    /\ UNCHANGED <<registered, remote_leader, beolink_listeners, source_list,
                   source_list_friendly, calls, updated, entityFrame>>

ExpandNext ==
    \/ \E d \in Acting :
           \E product_state \in RelayProductStates(d) :
               AddedToHass(d, product_state, <<>>) /\ UNCHANGED outsideEntity
    \/ \E d \in Acting, beolink_jids \in JidLists(ServiceJids, MaxJids) :
           CallBeolinkExpand(d, beolink_jids) /\ UNCHANGED outsideEntity
    \/ \E d \in Acting, beolink_jids \in JidLists(ServiceJids, MaxJids) :
           CallBeolinkUnexpand(d, beolink_jids) /\ UNCHANGED outsideEntity
    \/ \E i \in 1..MaxTasks : RunBackground(i) /\ UNCHANGED outsideEntity

SpecExpand == RelayInit /\ [][ExpandNext]_vars

\* The event loop resumes every task it holds.
SpecExpandFair ==
    SpecExpand /\ \A i \in 1..MaxTasks : WF_vars(RunBackground(i) /\ UNCHANGED outsideEntity)

-----------------------------------------------------------------------------
(* C15 *)

\* A call with an invalid JID in its list leaves no task and no request
\* behind; a call with valid JIDs only leaves one task for its list.
C15_Step ==
    ServiceRuns("beolink_expand") =>
        LET d == LastCall.entity
            beolink_jids == LastCall.args[1]
        IN /\ NoRequest
           /\ IF \E i \in DOMAIN beolink_jids : beolink_jids[i] \notin Jids
              THEN background' = background
              ELSE /\ Len(background') = Len(background) + 1
                   /\ SubSeq(background', 1, Len(background)) = background
                   /\ background'[Len(background')].entity = d
                   /\ background'[Len(background')].beolink_jids = beolink_jids

\* The expand requests sent are those of the tasks, each task's in the order
\* of its list, and no request belongs to two tasks.
C15_Inv ==
    /\ \A i \in DOMAIN background :
           LET t == background[i]
           IN /\ Len(t.sent_at) <= Len(t.beolink_jids)
              /\ \A k \in DOMAIN t.sent_at :
                     /\ t.sent_at[k] \in DOMAIN requests[t.entity]
                     /\ requests[t.entity][t.sent_at[k]]
                            = [req |-> RequestOf(t.coroutine),
                               arg |-> t.beolink_jids[k], num |-> 0]
                     /\ \A j \in 1..(k - 1) : t.sent_at[j] < t.sent_at[k]
              /\ \A j \in DOMAIN background :
                     (j # i /\ background[j].entity = t.entity)
                         => \A k \in DOMAIN t.sent_at, l \in DOMAIN background[j].sent_at :
                                t.sent_at[k] # background[j].sent_at[l]
    /\ \A d \in Entities :
           Len(requests[d])
               = Cardinality({<<i, k>> \in (DOMAIN background) \X (1..MaxJids + 1) :
                                 background[i].entity = d
                                     /\ k \in DOMAIN background[i].sent_at})

\* Task i has sent one request for each JID of its list.
TaskDone(i) ==
    i \in DOMAIN background
        /\ Len(background[i].sent_at) = Len(background[i].beolink_jids)

\* C15: async_beolink_expand sends nothing and starts nothing when a JID of
\* its list is invalid; with valid JIDs only, one request per JID is sent, in
\* list order, whatever other expand and unexpand calls run in between.
C15_ExpandValidatesFirst ==
    /\ []C15_Inv
    /\ [][C15_Step]_vars
    /\ \A i \in 1..MaxTasks : (i \in DOMAIN background) ~> TaskDone(i)

\* An expand and an unexpand of two JIDs each ran interleaved to their end.
C15_Witness ==
    /\ Len(background) = 2
    /\ background[1].coroutine = "_beolink_expand"
    /\ background[2].coroutine = "_beolink_unexpand"
    /\ TaskDone(1) /\ TaskDone(2)
    /\ background[1].sent_at = <<1, 3>>
    /\ background[2].sent_at = <<2, 4>>

-----------------------------------------------------------------------------
(* media_player.py: the notifications of the device *)

\* The values of a RenderingState the device notifies.
RenderingStates ==
    {"started", "buffering", "idle", "paused", "stopped", "ended", "error", "unknown"}

\* Mutant: stopped reads as idle.
StateEnumStoppedIdle ==
    [started |-> "playing", buffering |-> "playing", idle |-> "idle",
     paused |-> "paused", stopped |-> "idle", ended |-> "paused",
     error |-> "idle", unknown |-> "idle", networkStandby |-> "idle"]

\* const.py lines 83-98: StateEnum, member name to value.
StateEnum ==
    [started |-> "playing", buffering |-> "playing", idle |-> "idle",
     paused |-> "paused", stopped |-> "paused", ended |-> "paused",
     error |-> "idle", unknown |-> "idle", networkStandby |-> "idle"]

\* Lines 697-700: the state property, StateEnum[self._state]; a name StateEnum
\* lacks raises KeyError.
State(d) ==
    IF state[d] \in DOMAIN StateEnum THEN StateEnum[state[d]] ELSE "KeyError"

\* Lines 640-647: _update_playback_state
UpdatePlaybackState(d, data) ==
    /\ d \in registered
    /\ playback_state' = [playback_state EXCEPT ![d] = data]
    /\ state' = [state EXCEPT ![d] = data]
    /\ UNCHANGED <<relayVars, max_volume, volume_step, current_volume,
                   playback_metadata, source_change, playback_progress, last_update,
                   group_members, now, background>>

\* Lines 649-655: _update_source_change; _update_bluetooth assigns none of
\* the fields kept here.
UpdateSourceChange(d, data) ==
    /\ d \in registered
    /\ source_change' = [source_change EXCEPT ![d] = data]
    /\ UNCHANGED <<relayVars, max_volume, volume_step, current_volume,
                   playback_metadata, playback_progress, last_update, state,
                   playback_state, group_members, now, background>>

\* Lines 657-676: _update_notification of beolinkAvailableListeners,
\* beolinkListeners or configuration.
UpdateNotification(d, listeners) ==
    /\ d \in registered
    /\ RunUpdateBeolink(d, playback_metadata[d], source_change[d], listeners)
    /\ updated' = (updated \/ calls # <<>>)
    /\ UNCHANGED <<registered, source_list, source_list_friendly, tasks, published,
                   executed, requests, log, escaped, calls,
                   max_volume, volume_step, current_volume, playback_metadata,
                   source_change, playback_progress, last_update, state,
                   playback_state, now, background>>

\* get_product_state at start-up, for the notifications.
NotifyProductStates(d) ==
    {[volume |-> 0, has_metadata |-> h, metadata |-> m, progress |-> 0,
      state |-> s, source |-> src] :
        h \in BOOLEAN, m \in DeviceMetadata(d), s \in {"unknown", "started"},
        src \in DeviceSources}

NotifyNext ==
    \/ \E d \in Acting :
           \E listeners \in DeviceListeners(d), product_state \in NotifyProductStates(d) :
               AddedToHass(d, product_state, listeners) /\ UNCHANGED outsideEntity
    \/ \E d \in Acting, data \in RenderingStates :
           UpdatePlaybackState(d, data) /\ UNCHANGED outsideEntity
    \/ \E d \in Acting :
           \E data \in DeviceMetadata(d), listeners \in DeviceListeners(d) :
               UpdatePlaybackMetadata(d, data, listeners) /\ UNCHANGED outsideEntity
    \/ \E d \in Acting, data \in DeviceSources :
           UpdateSourceChange(d, data) /\ UNCHANGED outsideEntity
    \/ \E d \in Acting :
           \E listeners \in DeviceListeners(d) :
               UpdateNotification(d, listeners) /\ UNCHANGED outsideEntity

SpecNotify == RelayInit /\ [][NotifyNext]_vars

-----------------------------------------------------------------------------
(* C16 *)

\* The translation of each playback state of the device.
C16_Translation ==
    [started |-> "playing", buffering |-> "playing",
     paused |-> "paused", stopped |-> "paused", ended |-> "paused",
     idle |-> "idle", error |-> "idle", unknown |-> "idle"]

\* A playback-state notification was handled by a registered entity.
C16_Step ==
    \A d \in registered :
        (state'[d] # state[d] \/ playback_state'[d] # playback_state[d])
            => /\ playback_state'[d] \in DOMAIN C16_Translation
               /\ State(d)' = C16_Translation[playback_state'[d]]

\* C16: after a playback-state notification the state property reads the
\* translation of the notified state, and reading the state never fails.
C16_StateIsTranslation ==
    /\ [][C16_Step]_vars
    /\ [](\A d \in Entities : State(d) \in {"playing", "paused", "idle"})

\* The device notified stopped, which reads as paused.
C16_Witness ==
    \E d \in registered :
        playback_state[d] = "stopped" /\ state[d] = "stopped" /\ State(d) = "paused"

-----------------------------------------------------------------------------
(* C17 *)

\* _update_beolink ran on d in this step: d was added, or its metadata or
\* one of the fields _update_beolink assigns changed.
C17_Ran(d) ==
    /\ d \in registered'
    /\ \/ d \notin registered
       \/ playback_metadata'[d] # playback_metadata[d]
       \/ remote_leader'[d] # remote_leader[d]
       \/ beolink_listeners'[d] # beolink_listeners[d]
       \/ group_members'[d] # group_members[d]

\* The entity of a JID in the entity registry.
C17_EntityOf(jid) == IF jid \in Entities THEN "media_player." \o jid ELSE None

C17_Step ==
    \A d \in Entities :
        C17_Ran(d) =>
            LET leader == playback_metadata'[d].remote_leader
                wired == Source(d)' \in {SourceEnum.lineIn, SourceEnum.uriStreamer}
            IN /\ wired => remote_leader'[d] = None
               /\ IF leader # None /\ ~wired
                  THEN /\ remote_leader'[d] = leader
                       /\ group_members'[d] = <<C17_EntityOf(leader)>>
                  ELSE /\ Len(group_members'[d]) = 1 + Len(beolink_listeners'[d])
                       /\ group_members'[d][1] = C17_EntityOf(d)
                       /\ \A i \in DOMAIN beolink_listeners'[d] :
                              group_members'[d][i + 1]
                                  = C17_EntityOf(beolink_listeners'[d][i])

\* C17: after every run of _update_beolink the group members are the leader's
\* entity alone for a listener, else the own entity followed by one entry per
\* listener in listener order; the remote leader is cleared when the source
\* is line-in or audio streamer.
C17_GroupMembers == [][C17_Step]_vars

\* A device whose metadata names a leader plays line-in and leads two
\* listeners.
C17_Witness ==
    \E d \in registered :
        /\ playback_metadata[d].remote_leader = "jid_b"
        /\ Source(d) = SourceEnum.lineIn
        /\ remote_leader[d] = None
        /\ beolink_listeners[d] = <<"jid_c", "jid_b">>
        /\ group_members[d] = <<"media_player.jid_a", None, "media_player.jid_b">>

-----------------------------------------------------------------------------
(* event.py: the button and Beoremote key event entities *)

\* WebsocketNotification.BUTTON and WebsocketNotification.BEO_REMOTE_BUTTON
BUTTON == "button"
BEO_REMOTE_BUTTON == "beo_remote_button"

\* The event types of the buttons and of the keys.
DEVICE_BUTTON_EVENTS == {"short_press_release", "long_press_timeout"}
BEO_REMOTE_KEY_EVENTS == {"key_press", "key_release"}

\* Mutant: the signal does not carry the unique id of the entity's own device.
SubscribedSignalOneDevice(e) ==
    IF e.class = "BangOlufsenButtonEvent"
    THEN "11111111" \o "_" \o BUTTON \o "_" \o e.type
    ELSE "11111111" \o "_" \o BEO_REMOTE_BUTTON \o "_" \o e.type

\* Lines 148-152 and 199-203: the signal _async_handle_event is connected to.
SubscribedSignal(e) ==
    IF e.class = "BangOlufsenButtonEvent"
    THEN e.unique_id \o "_" \o BUTTON \o "_" \o e.type
    ELSE e.unique_id \o "_" \o BEO_REMOTE_BUTTON \o "_" \o e.type

\* The signal the WebSocket listener sends a button or key notification of a
\* device on.
NotificationSignal(n) == n.unique_id \o "_" \o n.kind \o "_" \o n.name

\* The notifications of the devices: a button or a key of a submenu, with
\* its event type.
Notifications ==
    {[unique_id |-> u, kind |-> BUTTON, name |-> DEVICE_BUTTONS[i], event |-> ev] :
        u \in EventDevices, i \in DOMAIN DEVICE_BUTTONS, ev \in DEVICE_BUTTON_EVENTS}
    \cup {[unique_id |-> u, kind |-> BEO_REMOTE_BUTTON, name |-> k, event |-> ev] :
              u \in EventDevices, k \in RemoteKeyTypes, ev \in BEO_REMOTE_KEY_EVENTS}

\* Lines 42-110: async_setup_entry of the device with unique id u, then
\* async_added_to_hass of each entity added; the key entities only when a
\* remote is paired.
AsyncSetupEntry(u, has_remote) ==
    /\ \A e \in connected : e.unique_id # u
    /\ connected' = connected \cup
           {e \in EventEntities :
               /\ e.unique_id = u
               /\ e.class = "BangOlufsenRemoteKeyEvent" => has_remote}
    /\ UNCHANGED <<triggered, written, notifications>>
    /\ UNCHANGED <<relayVars, flowVars, entityVars, optionVars>>

\* Lines 133-137 and 184-188: _async_handle_event, run by the dispatcher for
\* each entity connected to the signal of notification n.
DispatchNotification(n) ==
    /\ Len(notifications) < MaxNotifications
    /\ notifications' = Append(notifications, n)
    /\ LET handlers == {e \in connected : SubscribedSignal(e) = NotificationSignal(n)}
       IN /\ triggered' = [e \in EventEntities |->
                               IF e \in handlers THEN Append(triggered[e], n.event)
                               ELSE triggered[e]]
          /\ written' = [e \in EventEntities |->
                             IF e \in handlers THEN written[e] + 1 ELSE written[e]]
    /\ UNCHANGED connected
    /\ UNCHANGED <<relayVars, flowVars, entityVars, optionVars>>

EventNext ==
    \/ \E u \in EventDevices, has_remote \in BOOLEAN : AsyncSetupEntry(u, has_remote)
    \/ \E n \in Notifications : DispatchNotification(n)

SpecEvent == RelayInit /\ [][EventNext]_vars

-----------------------------------------------------------------------------
(* C18 *)

\* Notification n is of the device and of the button type or key of entity e.
C18_Own(e, n) ==
    /\ e.unique_id = n.unique_id
    /\ e.type = n.name
    /\ (e.class = "BangOlufsenButtonEvent") = (n.kind = "button")

C18_Step ==
    notifications' # notifications =>
        LET n == notifications'[Len(notifications')]
        IN \A e \in connected :
               IF C18_Own(e, n)
               THEN /\ triggered'[e] = Append(triggered[e], n.event)
                    /\ written'[e] = written[e] + 1
               ELSE /\ triggered'[e] = triggered[e]
                    /\ written'[e] = written[e]

\* C18: a connected button or key entity triggers exactly one event for each
\* notification of its own device and button type or key, and none, with its
\* state unchanged, for a notification of another button, key or device.
C18_OwnNotificationsOnly == [][C18_Step]_vars

\* Both devices are set up; the same key was notified on each, and each
\* key entity triggered its own event only.
C18_Witness ==
    /\ Len(notifications) = 2
    /\ notifications[1].unique_id # notifications[2].unique_id
    /\ notifications[1].name = "Light/Blue" /\ notifications[2].name = "Light/Blue"
    /\ notifications[1].event # notifications[2].event
    /\ \A e \in EventEntities :
           e.class = "BangOlufsenRemoteKeyEvent" /\ e.type = "Light/Blue"
               => e \in connected /\ Len(triggered[e]) = 1 /\ written[e] = 1

-----------------------------------------------------------------------------
(* config_flow.py: BangOlufsenOptionsFlowHandler *)

\* The config entries the options flows are opened on, as the config flow
\* made them.
ConfiguredEntries ==
    <<[unique_id |-> "11111111", title |-> "Beosound Balance-11111111",
       data |-> [default_volume |-> 30, host |-> <<192, 168, 0, 10>>,
                 jid |-> Jid("1111", "1111111", "11111111"), max_volume |-> 80,
                 model |-> "Beosound Balance"]],
      [unique_id |-> "22222222", title |-> "Beosound Level-22222222",
       data |-> [default_volume |-> DEFAULT_DEFAULT_VOLUME, host |-> <<192, 168, 0, 11>>,
                 jid |-> Jid("1111", "1111111", "22222222"),
                 max_volume |-> DEFAULT_MAX_VOLUME, model |-> "Beosound Level"]]>>

\* What get_volume_settings answers to the options flow.
OptionVolumeOutcomes ==
    {[exc |-> "", default |-> 30, maximum |-> 80],
     [exc |-> "", default |-> 0, maximum |-> 0]}
    \cup {[exc |-> e, default |-> 0, maximum |-> 0] : e \in RequestExceptions}

\* What the user submits in the options form; a key of the device identity
\* the input carries is given here, NoHost, NoJid and "" when it carries none.
OptionInputs ==
    {[default_volume |-> dv, max_volume |-> 70, host |-> h, jid |-> j, model |-> mo] :
        dv \in {20, 30}, h \in {NoHost, <<10, 0, 0, 1>>},
        j \in {NoJid, Jid("1111", "1111111", "33333333")}, mo \in {"", "Beolab 28"}}

\* Lines 237-240: __init__ of the handler for config entry k.
OptionsFlowHandler(k) ==
    [entry |-> k, step |-> "none", reason |-> "", error |-> "", escaped |-> "",
     default_volume |-> 0, max_volume |-> 0]

\* Lines 253-284: async_step_init() given what get_volume_settings answers.
AsyncStepInit(fl, volume_outcome) ==
    IF volume_outcome.exc # ""
    THEN LET fl1 == [fl EXCEPT !.error = volume_outcome.exc]
         IN IF ~Caught(volume_outcome.exc)
            THEN [fl1 EXCEPT !.escaped = volume_outcome.exc]
            ELSE IF volume_outcome.exc \in DOMAIN AbortReasons
                 THEN [fl1 EXCEPT !.step = "abort",
                                  !.reason = AbortReasons[volume_outcome.exc]]
                 ELSE [fl1 EXCEPT !.escaped = "KeyError"]
    ELSE [fl EXCEPT !.step = "init",
                    !.default_volume = IF volume_outcome.default # 0
                                       THEN volume_outcome.default
                                       ELSE DEFAULT_DEFAULT_VOLUME,
                    !.max_volume = IF volume_outcome.maximum # 0
                                   THEN volume_outcome.maximum
                                   ELSE DEFAULT_MAX_VOLUME]

\* Lines 246-249: the data of the entry.
OptionsData(config_entry, user_input) ==
    [user_input EXCEPT !.model = config_entry.data.model,
                       !.jid = config_entry.data.jid,
                       !.host = config_entry.data.host]

\* Lines 244-251: async_step_init(user_input) of options flow i.
AsyncStepInitInput(i, fl, opts, user_input) ==
    LET config_entry == entries[fl.entry]
    IN [flow |-> [fl EXCEPT !.step = "create_entry"],
        option_entries |-> Append(opts, [flow |-> i, title |-> config_entry.title,
                                         data |-> OptionsData(config_entry, user_input)])]

\* The user opens the options of config entry k.
StartOptionsFlow(k, volume_outcome) ==
    /\ Len(option_flows) < MaxFlows
    /\ k \in DOMAIN entries
    /\ option_flows' = Append(option_flows,
                              AsyncStepInit(OptionsFlowHandler(k), volume_outcome))
    /\ UNCHANGED <<option_entries, relayVars, flowVars, entityVars, eventVars>>

\* The user submits the options form.
SubmitOptions(i, user_input) ==
    /\ i \in DOMAIN option_flows
    /\ option_flows[i].step = "init"
    /\ LET r == AsyncStepInitInput(i, option_flows[i], option_entries, user_input)
       IN /\ option_flows' = [option_flows EXCEPT ![i] = r.flow]
          /\ option_entries' = r.option_entries
    /\ UNCHANGED <<relayVars, flowVars, entityVars, eventVars>>

OptionsSpecInit ==
    /\ EntityFieldsInit
    /\ DefaultSettingsInit
    /\ EventInit
    /\ OptionsInit
    /\ RelayFieldsInit
    /\ flows = <<>>
    /\ entries = ConfiguredEntries

OptionsNext ==
    \/ \E k \in DOMAIN ConfiguredEntries, volume_outcome \in OptionVolumeOutcomes :
           StartOptionsFlow(k, volume_outcome)
    \/ \E i \in FlowIds, user_input \in OptionInputs : SubmitOptions(i, user_input)

SpecOptions == OptionsSpecInit /\ [][OptionsNext]_vars

-----------------------------------------------------------------------------
(* C19 *)

\* Every entry an options flow created carries the model, JID, host and title
\* of the config entry the flow was opened on.
C19_Identity ==
    \A n \in DOMAIN option_entries :
        LET config_entry == entries[option_flows[option_entries[n].flow].entry]
        IN /\ option_entries[n].data.model = config_entry.data.model
           /\ option_entries[n].data.jid = config_entry.data.jid
           /\ option_entries[n].data.host = config_entry.data.host
           /\ option_entries[n].title = config_entry.title

\* An options flow whose get_volume_settings request failed with one of the
\* exceptions the step catches is aborted with the reason of its kind, and
\* created no entry.
C19_Aborts ==
    \A i \in DOMAIN option_flows :
        (option_flows[i].error # "" /\ Caught(option_flows[i].error))
        => /\ option_flows[i].step = "abort"
           /\ option_flows[i].reason = AbortReasons[BaseOf(option_flows[i].error)]
           /\ option_flows[i].escaped = ""
           /\ \A n \in DOMAIN option_entries : option_entries[n].flow # i

\* C19: the entry an options flow creates keeps the model, Beolink JID, host
\* and title of the existing config entry whatever the user submitted, and a
\* failed volume-settings request aborts the flow with the matching reason
\* with nothing stored.
C19_OptionsKeepIdentity == C19_Identity /\ C19_Aborts

-----------------------------------------------------------------------------
(* The relay under a standing assignment of remote leaders: each entity *)
(* keeps the remote leader it had when it was added.                    *)

LeadersNext ==
    \/ \E d \in Entities :
           \E listeners \in ListenerLists(Others(d), MaxListeners),
              product_state \in RelayProductStates(d) :
               AddedToHass(d, product_state, listeners) /\ UNCHANGED outsideEntity
    \/ \E d \in Entities, command \in ServiceCommands, parameter \in ServiceParameters :
           CallLeaderCommand(d, command, parameter) /\ UNCHANGED outsideEntity
    \/ \E d \in Entities, volume_level \in ServiceVolumeLevels :
           CallSetVolume(d, volume_level) /\ UNCHANGED outsideEntity
    \/ Deliver /\ UNCHANGED outsideEntity

SpecLeaders == RelayInit /\ [][LeadersNext]_vars

-----------------------------------------------------------------------------
(* C20 *)

\* The signals sent so far that forward a command to a remote leader.
C20_Forwards ==
    {i \in DOMAIN published :
        published[i].topic[2] \in {BEOLINK_LEADER_COMMAND, BEOLINK_VOLUME}}

\* C20: a command issued through async_beolink_leader_command or
\* async_beolink_set_volume does not circulate between the devices: under a
\* standing assignment of remote leaders a relay that ends forwards the
\* command of one service call to no device twice.
C20_RelayEnds ==
    Len(calls) <= 1 =>
        \A i, j \in C20_Forwards : i # j => published[i] # published[j]

====
